---- MODULE Spec2Model ----
(***************************************************************************)
(* A model of the Maildir/MH mailbox engine of NeoMutt (maildir/mh.c).     *)
(*                                                                         *)
(* File names and the lines of .mh_sequences are sequences of characters;  *)
(* a character is a one-element string, and a name that the code only ever *)
(* compares as a whole (a sequence name, the unique part of a Maildir file *)
(* name, a subdirectory) is one character of that alphabet.                *)
(***************************************************************************)
EXTENDS Integers, Sequences, FiniteSets, TLC

(***************************************************************************)
(* Characters and C string helpers                                         *)
(***************************************************************************)

\* a file of lines: one that does not exist has no lines
NoFile == [exists |-> FALSE, lines |-> <<>>]

FileOf(lines) == [exists |-> TRUE, lines |-> lines]

DigitChars == <<"0", "1", "2", "3", "4", "5", "6", "7", "8", "9">>

isdigit(c) == \E i \in 1..10 : DigitChars[i] = c

DigitVal(c) == (CHOOSE i \in 1..10 : DigitChars[i] = c) - 1

\* strchr: index of the first occurrence of c in s, 0 when there is none
strchr(s, c) ==
    IF \E i \in 1..Len(s) : s[i] = c
    THEN CHOOSE i \in 1..Len(s) : s[i] = c /\ \A j \in 1..(i - 1) : s[j] # c
    ELSE 0

\* strrchr: index of the last occurrence of c in s, 0 when there is none
strrchr(s, c) ==
    IF \E i \in 1..Len(s) : s[i] = c
    THEN CHOOSE i \in 1..Len(s) : s[i] = c /\ \A j \in (i + 1)..Len(s) : s[j] # c
    ELSE 0

\* the part of s from index i on (s + i - 1 in C)
StrFrom(s, i) == SubSeq(s, i, Len(s))

\* the part of s before index i
StrBefore(s, i) == SubSeq(s, 1, i - 1)

\* strncmp(s, prefix, strlen(prefix)) == 0
HasPrefix(s, prefix) ==
    /\ Len(s) >= Len(prefix)
    /\ SubSeq(s, 1, Len(prefix)) = prefix

AllDigits(s) == \A i \in 1..Len(s) : isdigit(s[i])

RECURSIVE DecimalValue(_)
DecimalValue(s) ==
    IF s = <<>> THEN 0
    ELSE 10 * DecimalValue(SubSeq(s, 1, Len(s) - 1)) + DigitVal(s[Len(s)])

\* mutt_str_atoi: [rc, val]; rc < 0 when s is not a decimal number
mutt_str_atoi(s) ==
    IF s # <<>> /\ AllDigits(s)
    THEN [rc |-> 0, val |-> DecimalValue(s)]
    ELSE [rc |-> -1, val |-> 0]

\* atoi: the value of the leading digits, no error reporting
atoi(s) ==
    IF s = <<>> \/ ~isdigit(s[1]) THEN 0
    ELSE LET lead == CHOOSE n \in 1..Len(s) :
                        /\ \A i \in 1..n : isdigit(s[i])
                        /\ (n = Len(s) \/ ~isdigit(s[n + 1]))
         IN DecimalValue(SubSeq(s, 1, lead))

\* snprintf("%d") / snprintf("%u") of a non-negative number
RECURSIVE FormatDecimal(_)
FormatDecimal(n) ==
    IF n < 10 THEN <<DigitChars[n + 1]>>
    ELSE FormatDecimal(n \div 10) \o <<DigitChars[(n % 10) + 1]>>

\* the larger of two numbers
Max2(a, b) == IF a > b THEN a ELSE b

SetMax(S) ==
    IF S = {} THEN 0
    ELSE LET x == CHOOSE x \in S : \A y \in S : y <= x IN x

(***************************************************************************)
(* Configuration                                                           *)
(***************************************************************************)

MhSeqUnseen == "unseen"
MhSeqFlagged == "flagged"
MhSeqReplied == "replied"

MH_SEQ_UNSEEN == 1
MH_SEQ_REPLIED == 2
MH_SEQ_FLAGGED == 4

(***************************************************************************)
(* Sequence table (struct MhSequences): max is the last allocated index,   *)
(* flags the set of <<index, bit>> pairs that are set.                     *)
(***************************************************************************)

MhsBlock == 128

EmptyMhs == [max |-> 0, flags |-> {}, alloc |-> FALSE]

mhs_alloc(mhs, i) ==
    IF i <= mhs.max /\ mhs.alloc THEN mhs
    ELSE [mhs EXCEPT !.max = i + MhsBlock, !.alloc = TRUE]

mhs_check(mhs, i) ==
    IF ~mhs.alloc \/ i > mhs.max THEN {}
    ELSE {f \in {MH_SEQ_UNSEEN, MH_SEQ_REPLIED, MH_SEQ_FLAGGED} : <<i, f>> \in mhs.flags}

mhs_set(mhs, i, f) ==
    LET a == mhs_alloc(mhs, i)
    IN [a EXCEPT !.flags = a.flags \cup {<<i, f>>}]

mhs_free_sequences(mhs) == EmptyMhs

RECURSIVE mhs_set_range(_, _, _, _)
mhs_set_range(mhs, first, last, f) ==
    IF first > last THEN mhs
    ELSE mhs_set_range(mhs_set(mhs, first, f), first + 1, last, f)

(***************************************************************************)
(* Reading .mh_sequences                                                   *)
(***************************************************************************)

IsDelim(c) == c \in {" ", "\t", ":"}

\* strtok(buf, " \t:") called until it returns NULL: the tokens of a line
RECURSIVE strtok_all(_)
strtok_all(s) ==
    IF s = <<>> THEN <<>>
    ELSE IF IsDelim(s[1]) THEN strtok_all(Tail(s))
    ELSE LET n == CHOOSE n \in 1..Len(s) :
                      /\ \A i \in 1..n : ~IsDelim(s[i])
                      /\ (n = Len(s) \/ IsDelim(s[n + 1]))
         IN <<SubSeq(s, 1, n)>> \o strtok_all(StrFrom(s, n + 1))

\* mh_read_token taking a range for its first number only
ReadTokenFirstOnly(t) ==
    LET p == strchr(t, "-")
        a == mutt_str_atoi(IF p > 0 THEN StrBefore(t, p) ELSE t)
    IN IF a.rc < 0
       THEN [rc |-> -1, first |-> 0, last |-> 0]
       ELSE [rc |-> 0, first |-> a.val, last |-> a.val]

mh_read_token(t) ==
    LET p == strchr(t, "-")
    IN IF p > 0
       THEN LET a == mutt_str_atoi(StrBefore(t, p))
                b == mutt_str_atoi(StrFrom(t, p + 1))
            IN IF a.rc < 0 \/ b.rc < 0
               THEN [rc |-> -1, first |-> 0, last |-> 0]
               ELSE [rc |-> 0, first |-> a.val, last |-> b.val]
       ELSE LET a == mutt_str_atoi(t)
            IN IF a.rc < 0
               THEN [rc |-> -1, first |-> 0, last |-> 0]
               ELSE [rc |-> 0, first |-> a.val, last |-> a.val]

\* the tokens after the sequence name, applied in order
RECURSIVE ReadTokens(_, _, _)
ReadTokens(mhs, toks, f) ==
    IF toks = <<>> THEN [rc |-> 0, mhs |-> mhs]
    ELSE LET r == mh_read_token(Head(toks))
         IN IF r.rc < 0
            THEN [rc |-> -1, mhs |-> mhs_free_sequences(mhs)]
            ELSE ReadTokens(mhs_set_range(mhs, r.first, r.last, f), Tail(toks), f)

SeqFlagOf(t) ==
    IF t = <<MhSeqUnseen>> THEN MH_SEQ_UNSEEN
    ELSE IF t = <<MhSeqFlagged>> THEN MH_SEQ_FLAGGED
    ELSE IF t = <<MhSeqReplied>> THEN MH_SEQ_REPLIED
    ELSE 0

RECURSIVE ReadLines(_, _)
ReadLines(mhs, lines) ==
    IF lines = <<>> THEN [rc |-> 0, mhs |-> mhs]
    ELSE LET toks == strtok_all(Head(lines))
         IN IF toks = <<>> \/ SeqFlagOf(Head(toks)) = 0
            THEN ReadLines(mhs, Tail(lines))
            ELSE LET r == ReadTokens(mhs, Tail(toks), SeqFlagOf(Head(toks)))
                 IN IF r.rc < 0 THEN r ELSE ReadLines(r.mhs, Tail(lines))

\* mh_read_sequences on the file content (NoFile when fopen fails)
mh_read_sequences(content) ==
    IF ~content.exists THEN [rc |-> 0, mhs |-> EmptyMhs]
    ELSE ReadLines(EmptyMhs, content.lines)

(***************************************************************************)
(* Writing .mh_sequences                                                   *)
(***************************************************************************)

\* a run written as its first index alone, whatever its length
FlushRunFirstOnly(acc, first, last) == acc \o <<" ">> \o FormatDecimal(first)

FlushRun(acc, first, last) ==
    IF last < 0 THEN acc \o <<" ">> \o FormatDecimal(first)
    ELSE acc \o <<" ">> \o FormatDecimal(first) \o <<"-">> \o FormatDecimal(last)

\* the loop over 0..mhs->max; past the last index that has the flag the loop
\* body does nothing, so the walk ends there
RECURSIVE WriteRuns(_, _, _, _, _, _)
WriteRuns(mhs, f, i, first, last, acc) ==
    IF i > mhs.max \/ ~\E pr \in mhs.flags : pr[1] >= i /\ pr[2] = f
    THEN IF first >= 0 THEN FlushRun(acc, first, last) ELSE acc
    ELSE IF f \in mhs_check(mhs, i)
         THEN IF first < 0
              THEN WriteRuns(mhs, f, i + 1, i, last, acc)
              ELSE WriteRuns(mhs, f, i + 1, first, i, acc)
         ELSE IF first >= 0
              THEN WriteRuns(mhs, f, i + 1, -1, -1, FlushRun(acc, first, last))
              ELSE WriteRuns(mhs, f, i + 1, first, last, acc)

\* the line mhs_write_one_sequence prints (without its newline)
mhs_write_one_sequence(mhs, f, tag) == WriteRuns(mhs, f, 0, -1, -1, <<tag, ":">>)

seq_unseen == <<MhSeqUnseen, ":">>
seq_flagged == <<MhSeqFlagged, ":">>
seq_replied == <<MhSeqReplied, ":">>

\* a line that none of the writers takes for one of the three sequences
IsUnknownLine(line) ==
    /\ ~HasPrefix(line, seq_unseen)
    /\ ~HasPrefix(line, seq_flagged)
    /\ ~HasPrefix(line, seq_replied)

RECURSIVE CopyUnknown(_)
CopyUnknown(lines) ==
    IF lines = <<>> THEN <<>>
    ELSE IF IsUnknownLine(Head(lines))
         THEN <<Head(lines)>> \o CopyUnknown(Tail(lines))
         ELSE CopyUnknown(Tail(lines))

\* the lines of a file; a file that cannot be opened has none
LinesOf(content) == IF content.exists THEN content.lines ELSE <<>>

\* the file name of a path: what follows the last '/'
Basename(path) ==
    LET p == strrchr(path, "/") IN IF p > 0 THEN StrFrom(path, p + 1) ELSE path

\* MH flag bits an email contributes to the table (mh_update_sequences' loop body)
RECURSIVE CollectFlags(_, _)
CollectFlags(mhs, hdrs) ==
    IF hdrs = <<>> THEN mhs
    ELSE LET e == Head(hdrs)
             n == mutt_str_atoi(Basename(e.path))
         IN IF e.deleted \/ n.rc < 0
            THEN CollectFlags(mhs, Tail(hdrs))
            ELSE LET m1 == IF ~e.read THEN mhs_set(mhs, n.val, MH_SEQ_UNSEEN) ELSE mhs
                     m2 == IF e.flagged THEN mhs_set(m1, n.val, MH_SEQ_FLAGGED) ELSE m1
                     m3 == IF e.replied THEN mhs_set(m2, n.val, MH_SEQ_REPLIED) ELSE m2
                 IN CollectFlags(m3, Tail(hdrs))

HasBit(mhs, f) == \E pr \in mhs.flags : pr[2] = f

\* what mh_update_sequences writes into its temp file
UpdateSequencesContent(old, hdrs) ==
    LET mhs == CollectFlags(EmptyMhs, hdrs)
        u == IF HasBit(mhs, MH_SEQ_UNSEEN)
             THEN <<mhs_write_one_sequence(mhs, MH_SEQ_UNSEEN, MhSeqUnseen)>> ELSE <<>>
        f == IF HasBit(mhs, MH_SEQ_FLAGGED)
             THEN <<mhs_write_one_sequence(mhs, MH_SEQ_FLAGGED, MhSeqFlagged)>> ELSE <<>>
        r == IF HasBit(mhs, MH_SEQ_REPLIED)
             THEN <<mhs_write_one_sequence(mhs, MH_SEQ_REPLIED, MhSeqReplied)>> ELSE <<>>
    IN CopyUnknown(LinesOf(old)) \o u \o f \o r

\* the line mh_sequences_add_one writes for one line it reads
AddOneLine(line, n, unseen, flagged, replied) ==
    IF \/ unseen /\ HasPrefix(line, seq_unseen)
       \/ flagged /\ HasPrefix(line, seq_flagged)
       \/ replied /\ HasPrefix(line, seq_replied)
    THEN line \o <<" ">> \o FormatDecimal(n)
    ELSE line

\* what mh_sequences_add_one writes into its temp file
AddOneContent(old, n, unseen, flagged, replied) ==
    LET lines == LinesOf(old)
        copied == [i \in 1..Len(lines) |-> AddOneLine(lines[i], n, unseen, flagged, replied)]
        unseen_done == unseen /\ \E i \in 1..Len(lines) : HasPrefix(lines[i], seq_unseen)
        flagged_done == flagged /\ \E i \in 1..Len(lines) :
                            ~(unseen /\ HasPrefix(lines[i], seq_unseen))
                            /\ HasPrefix(lines[i], seq_flagged)
        replied_done == replied /\ \E i \in 1..Len(lines) :
                            ~(unseen /\ HasPrefix(lines[i], seq_unseen))
                            /\ ~(flagged /\ HasPrefix(lines[i], seq_flagged))
                            /\ HasPrefix(lines[i], seq_replied)
        u == IF ~unseen_done /\ unseen
             THEN <<(<<MhSeqUnseen, ":", " ">> \o FormatDecimal(n))>> ELSE <<>>
        f == IF ~flagged_done /\ flagged
             THEN <<(<<MhSeqFlagged, ":", " ">> \o FormatDecimal(n))>> ELSE <<>>
        r == IF ~replied_done /\ replied
             THEN <<(<<MhSeqReplied, ":", " ">> \o FormatDecimal(n))>> ELSE <<>>
    IN copied \o u \o f \o r

(***************************************************************************)
(* The two writers of .mh_sequences, step by step, and a reader in another *)
(* process (specification SpecSeq).                                        *)
(***************************************************************************)

VARIABLES
    files,      \* the message files of the folder: path -> content
    seqfile     \* <path>/.mh_sequences

VARIABLES
    seqtmp,     \* the writer's temp file (mh_mkstemp)
    wpc,        \* where the writer is
    wjob,       \* what the writer was called with
    wold,       \* .mh_sequences when the writer was called
    wnew,       \* what the writer put into its temp file
    wres,       \* how the last writer call ended
    wrounds,    \* writer calls so far
    robs        \* what the reader's last mh_read_sequences saw

seqVars == <<seqtmp, wpc, wjob, wold, wnew, wres, wrounds, robs>>

VARIABLES
    cdir0,      \* the folder before either process started
    cpc,        \* where each process is in mh_commit_msg
    chi,        \* each process's hi
    cpath,      \* e->path of the email each process commits
    cupd        \* each process's updseq and msg->flags.read

commitVars == <<cdir0, cpc, chi, cpath, cupd>>

VARIABLES
    rw          \* the call of mh_rewrite_message in progress

VARIABLES
    conf,        \* the folder's format and the configuration variables
    dirmtime,         \* the clock of the disk and the mtimes of the directories
    emails,       \* mailbox->emails
    mbox,        \* whether the mailbox is open, mailbox->mtime, mdata->mtime_cur
    mon,        \* MonitorContextChanged
    hcache,     \* the keys in the header cache
    last,       \* the last open, check or sync and what it returned
    nops        \* operations so far

boxVars == <<conf, dirmtime, emails, mbox, mon, hcache, last, nops>>

VARIABLES
    calc        \* a call of one of the functions on names and flags: its
                \* arguments and, once it has returned, its result

VARIABLES
    comp        \* a compressed mailbox: the compressed file, the plaintext
                \* working file, the Mailbox with its CompressInfo, and the
                \* last operation of the wrapper

VARIABLES
    nt          \* the mailboxes watched for new mail: AllMailboxes, the
                \* counters of mailbox.c, Context and what is on the disk

VARIABLES
    dlv         \* where an open or a sync of the Maildir stands while another
                \* program delivers, and the deliveries made and reported

\* what the steps of one part of the model leave alone
seqOthers == <<files, commitVars, rw, boxVars, calc, comp, nt, dlv>>
commitOthers == <<seqVars, rw, boxVars, calc, comp, nt, dlv>>
rewriteOthers == <<seqfile, seqVars, commitVars, boxVars, calc, comp, nt, dlv>>
boxOthers == <<seqVars, commitVars, rw, calc, comp, nt, dlv>>
calcOthers == <<files, seqfile, seqVars, commitVars, rw, boxVars, comp, nt, dlv>>
dlvOthers == <<seqVars, commitVars, rw, calc, comp, nt>>
ntOthers == <<files, seqfile, seqVars, commitVars, rw, boxVars, calc, comp, dlv>>
compOthers == <<files, seqfile, seqVars, commitVars, rw, boxVars, calc, nt, dlv>>

vars == <<files, seqfile, seqVars, commitVars, rw, boxVars, calc, comp, nt, dlv>>

MaxSeqLines == 2
MaxSeqRounds == 2
MaxMsgNo == 2

\* lines an .mh_sequences may hold when the engine meets it
SeqLinePool ==
    { <<MhSeqUnseen, ":", " ", "1", "-", "2">>,
      <<MhSeqFlagged, ":", " ", "3">>,
      <<"cur", ":", " ", "2">>,
      <<"pseq", ":", " ", "1", " ", "3">>,
      <<>> }

RECURSIVE SeqsUpTo(_, _)
SeqsUpTo(S, n) ==
    IF n = 0 THEN {<<>>}
    ELSE LET shorter == SeqsUpTo(S, n - 1)
         IN shorter \cup {Append(q, x) : q \in {r \in shorter : Len(r) = n - 1}, x \in S}

SeqFilePool == {NoFile} \cup {FileOf(q) : q \in SeqsUpTo(SeqLinePool, MaxSeqLines)}

\* the part of an Email the sequence writer reads
SeqEmails ==
    [path : {FormatDecimal(n) : n \in 1..MaxMsgNo}, deleted : {FALSE},
     read : BOOLEAN, flagged : BOOLEAN, replied : {FALSE}]

NoJob == [op |-> "none"]
NoObs == [valid |-> FALSE, file |-> NoFile]

\* no writer of .mh_sequences has been called
IdleSeq ==
    /\ seqtmp = NoFile
    /\ wpc = "idle"
    /\ wjob = NoJob
    /\ wold = seqfile
    /\ wnew = seqfile
    /\ wres = "none"
    /\ wrounds = 0
    /\ robs = NoObs

\* no process is in mh_commit_msg
IdleCommit ==
    /\ cdir0 = <<>>
    /\ cpc = <<>>
    /\ chi = <<>>
    /\ cpath = <<>>
    /\ cupd = <<>>

\* the rewrite has not been called
IdleRewrite == rw = [pc |-> "idle"]

\* no function call is being looked at
IdleCalc == calc = [fn |-> "none"]
IdleComp == comp = [op |-> "none"]

\* no mailbox is watched
IdleNotify == nt = [op |-> "none"]

\* no delivery is followed
IdleDelivery == dlv = [pc |-> "none"]

\* the mailbox has not been opened
NoBox == [opened |-> FALSE, mtime |-> 0, mtime_cur |-> 0]

IdleBox ==
    /\ conf = [magic |-> "none"]
    /\ dirmtime = [clock |-> 0]
    /\ emails = <<>>
    /\ mbox = NoBox
    /\ mon = FALSE
    /\ hcache = {}
    /\ last = [op |-> "none"]
    /\ nops = 0

EmptyDir == <<>>

InitSeq ==
    /\ seqfile \in SeqFilePool
    /\ files = EmptyDir
    /\ IdleSeq
    /\ IdleCalc
    /\ IdleComp
    /\ IdleNotify
    /\ IdleDelivery
    /\ IdleCommit
    /\ IdleRewrite
    /\ IdleBox

\* mh_mkstemp succeeded: the writer holds an empty temp file
SeqBegin(job) ==
    /\ wpc = "idle"
    /\ wrounds < MaxSeqRounds
    /\ wrounds' = wrounds + 1
    /\ wjob' = job
    /\ wold' = seqfile
    /\ wnew' = seqfile
    /\ wres' = "none"
    /\ robs' = NoObs
    /\ seqtmp' = FileOf(<<>>)
    /\ wpc' = "opened"
    /\ UNCHANGED seqfile
    /\ UNCHANGED seqOthers

mh_update_sequences_begin ==
    \E e1 \in SeqEmails, e2 \in SeqEmails :
        /\ atoi(e1.path) + 1 = atoi(e2.path)
        /\ e2.read /\ ~e2.deleted
        /\ SeqBegin([op |-> "update", hdrs |-> <<e1, e2>>])

mh_sequences_add_one_begin ==
    \E unseen \in BOOLEAN, flagged \in BOOLEAN :
        SeqBegin([op |-> "add_one", n |-> MaxMsgNo + 1, unseen |-> unseen,
                  flagged |-> flagged, replied |-> FALSE])

\* mh_mkstemp failed: the writer returns at once
SeqMkstempFails ==
    /\ wpc = "idle"
    /\ wrounds < MaxSeqRounds
    /\ wrounds' = wrounds + 1
    /\ wold' = seqfile
    /\ wnew' = seqfile
    /\ wres' = "nomkstemp"
    /\ robs' = NoObs
    /\ wpc' = "done"
    /\ UNCHANGED <<seqfile, seqtmp, wjob>>
    /\ UNCHANGED seqOthers

TmpContent(job, old) ==
    IF job.op = "update" THEN UpdateSequencesContent(old, job.hdrs)
    ELSE AddOneContent(old, job.n, job.unseen, job.flagged, job.replied)

\* the copy loop and the new lines, up to fclose(nfp)
SeqWriteTmp ==
    /\ wpc = "opened"
    /\ seqtmp' = FileOf(TmpContent(wjob, seqfile))
    /\ wnew' = seqtmp'
    /\ wpc' = "written"
    /\ UNCHANGED <<seqfile, wjob, wold, wres, wrounds, robs>>
    /\ UNCHANGED seqOthers

\* unlink(sequences)
SeqUnlinkOld ==
    /\ wpc = "written"
    /\ seqfile' = NoFile
    /\ wpc' = "unlinked"
    /\ UNCHANGED <<seqtmp, wjob, wold, wnew, wres, wrounds, robs>>
    /\ UNCHANGED seqOthers

\* mutt_file_safe_rename(tmpfname, sequences) == 0
SeqRenameOk ==
    /\ wpc = "unlinked"
    /\ ~seqfile.exists
    /\ seqfile' = seqtmp
    /\ seqtmp' = NoFile
    /\ wres' = "ok"
    /\ wpc' = "done"
    /\ UNCHANGED <<wjob, wold, wnew, wrounds, robs>>
    /\ UNCHANGED seqOthers

\* mutt_file_safe_rename(tmpfname, sequences) != 0, then unlink(tmpfname)
SeqRenameFails ==
    /\ wpc = "unlinked"
    /\ seqtmp' = NoFile
    /\ wres' = "renamefailed"
    /\ wpc' = "done"
    /\ UNCHANGED <<seqfile, wjob, wold, wnew, wrounds, robs>>
    /\ UNCHANGED seqOthers

\* the writer has returned; it may be called again
SeqReturn ==
    /\ wpc = "done"
    /\ wpc' = "idle"
    /\ UNCHANGED <<seqfile, seqtmp, wjob, wold, wnew, wres, wrounds, robs>>
    /\ UNCHANGED seqOthers

\* another process calls mh_read_sequences while the writer is at work
SeqRead ==
    /\ wpc \notin {"idle", "done"}
    /\ robs' = [valid |-> TRUE, file |-> seqfile]
    /\ UNCHANGED <<seqfile, seqtmp, wpc, wjob, wold, wnew, wres, wrounds>>
    /\ UNCHANGED seqOthers

NextSeq ==
    \/ mh_update_sequences_begin
    \/ mh_sequences_add_one_begin
    \/ SeqMkstempFails
    \/ SeqWriteTmp
    \/ SeqUnlinkOld
    \/ SeqRenameOk
    \/ SeqRenameFails
    \/ SeqReturn
    \/ SeqRead

(***************************************************************************)
(* Claims about the .mh_sequences writers                                  *)
(***************************************************************************)

\* C3: when the final rename of the temp file onto .mh_sequences fails, the
\* previous .mh_sequences still exists with its previous content and the temp
\* file has been removed.
C3_OldFileSurvivesFailedRename ==
    wres = "renamefailed" => (seqfile = wold /\ ~seqtmp.exists)

\* C4: a reader that opens .mh_sequences while a writer is at work sees either
\* the complete old content or the complete new content, never a missing file
\* and never a partly written one.
C4_ReaderSeesOldOrNew ==
    robs.valid => robs.file \in {wold, wnew}

\* C5: after mh_update_sequences or mh_sequences_add_one has returned, every
\* line of the old .mh_sequences that does not begin with one of the three
\* "<name>:" prefixes is present in the file, unchanged and in the same
\* relative order, and no such line has been added or dropped.
C5_UnknownLinesKept ==
    wpc = "done" => CopyUnknown(LinesOf(seqfile)) = CopyUnknown(LinesOf(wold))

(***************************************************************************)
(* Directories and renames                                                 *)
(***************************************************************************)

\* a directory is a function from the names in it to the files' contents
DirRemove(d, k) == [f \in DOMAIN d \ {k} |-> d[f]]

DirPut(d, k, c) == [f \in DOMAIN d \cup {k} |-> IF f = k THEN c ELSE d[f]]

\* mutt_file_safe_rename: link the target to the source, then unlink the
\* source; a target that exists makes it fail with EEXIST
mutt_file_safe_rename(d, src, target) ==
    IF target \in DOMAIN d \/ src \notin DOMAIN d
    THEN [rc |-> -1, errno |-> IF target \in DOMAIN d THEN "EEXIST" ELSE "ENOENT", dir |-> d]
    ELSE [rc |-> 0, errno |-> "", dir |-> DirRemove(DirPut(d, target, d[src]), src)]

(***************************************************************************)
(* mh_commit_msg, step by step, in two processes that deliver to the same  *)
(* MH folder (specification SpecCommit).                                   *)
(***************************************************************************)

Committers == {1, 2}

\* msg->path of each process: the name mh_mkstemp gave its temp file
CommitTmp(p) == <<".", IF p = 1 THEN "tmp1" ELSE "tmp2">>

CommitMsg(p) == [msg |-> IF p = 1 THEN "m1" ELSE "m2", whole |-> TRUE]

\* names an MH folder may hold before the commit
CommitNamePool ==
    { <<"1">>, <<"2">>, <<",", "3">>, <<",">>, <<"1", "a">>, <<"x">> }

\* the name with one leading ',' removed
DropComma(name) == IF name # <<>> /\ name[1] = "," THEN Tail(name) ELSE name

\* a scan that takes ",3" for a name that is not a number
NextNumberScanKeepsComma(names) ==
    SetMax({atoi(name) : name \in {m \in names : AllDigits(m)}})

\* the readdir loop of mh_commit_msg: the highest message number in use
NextNumberScan(names) ==
    SetMax({atoi(DropComma(name)) : name \in {m \in names : AllDigits(DropComma(m))}})

InitCommit ==
    /\ \E names \in SUBSET CommitNamePool :
          files = [f \in names \cup {CommitTmp(p) : p \in Committers} |->
                     IF f \in names THEN [msg |-> "m0", whole |-> TRUE]
                     ELSE CommitMsg(CHOOSE p \in Committers : CommitTmp(p) = f)]
    /\ cdir0 = files
    /\ cpc = [p \in Committers |-> "start"]
    /\ chi = [p \in Committers |-> 0]
    /\ cpath = [p \in Committers |-> <<>>]
    /\ cupd \in [Committers -> [updseq : BOOLEAN, read : BOOLEAN]]
    /\ seqfile \in {NoFile, FileOf(<<<<MhSeqUnseen, ":", " ", "1">>>>)}
    /\ IdleSeq
    /\ IdleCalc
    /\ IdleComp
    /\ IdleNotify
    /\ IdleDelivery
    /\ IdleRewrite
    /\ IdleBox

\* mutt_file_fsync_close or opendir fails: return -1
CommitOpenFails(p) ==
    /\ cpc[p] = "start"
    /\ cpc' = [cpc EXCEPT ![p] = "failed"]
    /\ UNCHANGED <<files, cdir0, chi, cpath, cupd, seqfile>>
    /\ UNCHANGED commitOthers

\* the readdir loop
CommitScan(p) ==
    /\ cpc[p] = "start"
    /\ chi' = [chi EXCEPT ![p] = NextNumberScan(DOMAIN files)]
    /\ cpc' = [cpc EXCEPT ![p] = "scanned"]
    /\ UNCHANGED <<files, cdir0, cpath, cupd, seqfile>>
    /\ UNCHANGED commitOthers

MaxCommitNo == 6

\* one round of the rename loop: hi++, then mutt_file_safe_rename
CommitRename(p) ==
    /\ cpc[p] = "scanned"
    /\ chi[p] < MaxCommitNo
    /\ LET hi == chi[p] + 1
           tmp == FormatDecimal(hi)
           r == mutt_file_safe_rename(files, CommitTmp(p), tmp)
       IN /\ chi' = [chi EXCEPT ![p] = hi]
          /\ files' = r.dir
          /\ IF r.rc = 0
             THEN /\ cpath' = [cpath EXCEPT ![p] = tmp]
                  /\ cpc' = [cpc EXCEPT ![p] = IF cupd[p].updseq THEN "renamed" ELSE "done"]
             ELSE UNCHANGED <<cpath, cpc>>
    /\ UNCHANGED <<cdir0, cupd, seqfile>>
    /\ UNCHANGED commitOthers

\* the rename fails with an errno other than EEXIST: return -1
CommitRenameFails(p) ==
    /\ cpc[p] = "scanned"
    /\ chi' = [chi EXCEPT ![p] = chi[p] + 1]
    /\ cpc' = [cpc EXCEPT ![p] = "failed"]
    /\ UNCHANGED <<files, cdir0, cpath, cupd, seqfile>>
    /\ UNCHANGED commitOthers

\* mh_sequences_add_one as one step: mk and rn tell whether mh_mkstemp and
\* the final rename succeed
mh_sequences_add_one(old, n, unseen, flagged, replied, mk, rn) ==
    IF ~mk THEN old
    ELSE IF rn THEN FileOf(AddOneContent(old, n, unseen, flagged, replied))
    ELSE NoFile

CommitUpdSeq(p) ==
    /\ cpc[p] = "renamed"
    /\ \E mk \in BOOLEAN, rn \in BOOLEAN :
          seqfile' = mh_sequences_add_one(seqfile, chi[p], ~cupd[p].read, FALSE, FALSE, mk, rn)
    /\ cpc' = [cpc EXCEPT ![p] = "done"]
    /\ UNCHANGED <<files, cdir0, chi, cpath, cupd>>
    /\ UNCHANGED commitOthers

NextCommit ==
    \E p \in Committers :
        \/ CommitOpenFails(p)
        \/ CommitScan(p)
        \/ CommitRename(p)
        \/ CommitRenameFails(p)
        \/ CommitUpdSeq(p)

(***************************************************************************)
(* Claims about mh_commit_msg                                              *)
(***************************************************************************)

\* the message numbers in use before the commit, tombstones (",n") included
C2_NumbersInUse ==
    {n \in 0..MaxCommitNo :
        FormatDecimal(n) \in DOMAIN cdir0 \/ (<<",">> \o FormatDecimal(n)) \in DOMAIN cdir0}

C2_Committed(p) == cpc[p] \in {"renamed", "done"}

\* C2: mh_commit_msg renames the temp file to hi+1, where hi is the largest
\* name that is all digits once one optional leading ',' is dropped, and
\* tries the next number on EEXIST; it never overwrites a file, and two
\* processes that commit at the same time end with distinct numbers and both
\* messages in the folder.
C2_CommitNumbers ==
    /\ \A f \in DOMAIN cdir0 :
          (\A p \in DOMAIN cpc : f # CommitTmp(p))
              => (f \in DOMAIN files /\ files[f] = cdir0[f])
    /\ \A p \in DOMAIN cpc :
          C2_Committed(p) =>
              /\ cpath[p] # <<>> /\ AllDigits(cpath[p])
              /\ cpath[p] \in DOMAIN files
              /\ files[cpath[p]] = CommitMsg(p)
              /\ CommitTmp(p) \notin DOMAIN files
              /\ DecimalValue(cpath[p]) > SetMax(C2_NumbersInUse)
              /\ DecimalValue(cpath[p]) <= SetMax(C2_NumbersInUse) + 2
              /\ (\A q \in DOMAIN cpc : q # p => ~C2_Committed(q))
                     => DecimalValue(cpath[p]) = SetMax(C2_NumbersInUse) + 1
    /\ \A p \in DOMAIN cpc, q \in DOMAIN cpc :
          (p # q /\ C2_Committed(p) /\ C2_Committed(q)) => cpath[p] # cpath[q]

\* both processes have committed next to a tombstone ",3": one got 4, the
\* other 5
C2_Witness ==
    /\ DOMAIN cpc = Committers
    /\ \A p \in Committers : cpc[p] = "done"
    /\ <<",", "3">> \in DOMAIN cdir0
    /\ cpath[1] = <<"5">>
    /\ cpath[2] = <<"4">>
    /\ files[<<"5">>] = CommitMsg(1)
    /\ files[<<"4">>] = CommitMsg(2)

(***************************************************************************)
(* Emails and Maildir file names                                           *)
(***************************************************************************)

\* struct Email as mutt_email_new leaves it, with its path and the message
\* the file holds
NewEmail(path, msg) ==
    [path |-> path, msg |-> msg, flagged |-> FALSE, replied |-> FALSE,
     read |-> FALSE, old |-> FALSE, deleted |-> FALSE, trash |-> FALSE,
     changed |-> FALSE, active |-> TRUE, attach_del |-> FALSE,
     maildir_flags |-> <<>>]

\* the switch of maildir_parse_flags, one flag character after the other
RECURSIVE ParseFlagChars(_, _, _)
ParseFlagChars(e, chars, flagsafe) ==
    IF chars = <<>> THEN e
    ELSE LET c == Head(chars)
             e2 == CASE c = "F" -> [e EXCEPT !.flagged = TRUE]
                     [] c = "R" -> [e EXCEPT !.replied = TRUE]
                     [] c = "S" -> [e EXCEPT !.read = TRUE]
                     [] c = "T" -> IF ~e.flagged \/ ~flagsafe
                                   THEN [e EXCEPT !.trash = TRUE, !.deleted = TRUE]
                                   ELSE e
                     [] OTHER -> [e EXCEPT !.maildir_flags = Append(@, c)]
         IN ParseFlagChars(e2, Tail(chars), flagsafe)

maildir_parse_flags(e, path, flagsafe) ==
    LET e0 == [e EXCEPT !.flagged = FALSE, !.read = FALSE, !.replied = FALSE]
        p == strrchr(path, ":")
    IN IF p > 0 /\ HasPrefix(StrFrom(path, p + 1), <<"2", ",">>)
       THEN ParseFlagChars([e0 EXCEPT !.maildir_flags = <<>>], StrFrom(path, p + 3), flagsafe)
       ELSE e0

\* char suffix[16] in maildir_sync_message and maildir_msg_open_new
SuffixSize == 16

\* snprintf(dest, destlen, ...): at most destlen - 1 characters are stored
Truncate(s, n) == IF Len(s) > n THEN SubSeq(s, 1, n) ELSE s

\* the order of the flag characters in ASCII
FlagOrder == <<"D", "F", "P", "R", "S", "T", "a", "b">>

\* qsort(tmp, strlen(tmp), 1, ch_compare)
RECURSIVE SortChars(_, _)
SortChars(s, i) ==
    IF i > Len(FlagOrder) THEN <<>>
    ELSE SelectSeq(s, LAMBDA c : c = FlagOrder[i]) \o SortChars(s, i + 1)

\* maildir_gen_flags without the letter of deleted
GenFlagsWithoutTrash(e) ==
    IF e.flagged \/ e.replied \/ e.read \/ e.deleted \/ e.old \/ e.maildir_flags # <<>>
    THEN LET tmp == (IF e.flagged THEN <<"F">> ELSE <<>>)
                    \o (IF e.replied THEN <<"R">> ELSE <<>>)
                    \o (IF e.read THEN <<"S">> ELSE <<>>)
                    \o e.maildir_flags
         IN Truncate(<<":", "2", ",">>
                        \o (IF e.maildir_flags # <<>> THEN SortChars(tmp, 1) ELSE tmp),
                     SuffixSize - 1)
    ELSE <<>>

\* maildir_gen_flags(suffix, sizeof(suffix), e)
maildir_gen_flags(e) ==
    IF e.flagged \/ e.replied \/ e.read \/ e.deleted \/ e.old \/ e.maildir_flags # <<>>
    THEN LET tmp == (IF e.flagged THEN <<"F">> ELSE <<>>)
                    \o (IF e.replied THEN <<"R">> ELSE <<>>)
                    \o (IF e.read THEN <<"S">> ELSE <<>>)
                    \o (IF e.deleted THEN <<"T">> ELSE <<>>)
                    \o e.maildir_flags
         IN Truncate(<<":", "2", ",">>
                        \o (IF e.maildir_flags # <<>> THEN SortChars(tmp, 1) ELSE tmp),
                     SuffixSize - 1)
    ELSE <<>>

\* the file name without its directory and without what follows the last ':'
maildir_canon_filename(src) ==
    LET name == Basename(src)
        u == strrchr(name, ":")
    IN IF u > 0 THEN StrBefore(name, u) ELSE name

\* the first component of a relative path ("new", "cur", "tmp"); a name
\* without '/' lies in the folder itself
SubdirOf(path) ==
    LET p == strchr(path, "/") IN IF p > 0 THEN StrBefore(path, p) ELSE <<>>

\* mh_valid_message: a name of digits only
mh_valid_message(name) == AllDigits(name)

(***************************************************************************)
(* Creating, committing and rewriting message files                        *)
(***************************************************************************)

MUTT_MAILDIR == "Maildir"
MUTT_MH == "MH"

\* the unique part of a freshly generated name (time, random number, host)
UniqPool == {"u1", "u2"}

\* the temp name with the flags of the email as they are, deleted included
TmpPathKeepsDeleted(magic, e, u) ==
    IF magic = MUTT_MAILDIR
    THEN <<"tmp", "/", IF e.read \/ e.old THEN "cur" ELSE "new", ".", u>>
             \o maildir_gen_flags(e)
    ELSE <<".", u>>

\* maildir_msg_open_new / mh_mkstemp: the name of the temp file for e
NewTmpPath(magic, e, u) ==
    IF magic = MUTT_MAILDIR
    THEN <<"tmp", "/", IF e.read \/ e.old THEN "cur" ELSE "new", ".", u>>
             \o maildir_gen_flags([e EXCEPT !.deleted = FALSE])
    ELSE <<".", u>>

\* mx_msg_open_new: an empty file under the temp name (O_EXCL: again when the
\* name is taken)
RwOpenNew(magic, fs, e, u) ==
    LET path == NewTmpPath(magic, e, u)
    IN IF path \in DOMAIN fs
       THEN [again |-> TRUE, fs |-> fs, tmp |-> path]
       ELSE [again |-> FALSE, fs |-> DirPut(fs, path, [msg |-> e.msg, whole |-> FALSE]),
             tmp |-> path]

\* mutt_copy_message_ctx and the close of the temp file: the file is complete
RwCopy(fs, tmp) == [fs EXCEPT ![tmp].whole = TRUE]

\* md_commit_message: one round of its loop with the fresh name u
md_commit_message(fs, tmp, e, u, fault) ==
    LET s == Basename(tmp)
        c == strchr(s, ":")
        suffix == IF c > 0 THEN StrFrom(s, c) ELSE <<>>
        path == <<s[1], "/", u>> \o suffix
        Renamed(r) ==
            IF fault = "fsync" THEN [rc |-> -1, again |-> FALSE, fs |-> fs, e |-> e]
            ELSE IF fault = "rename" THEN [rc |-> -1, again |-> FALSE, fs |-> fs, e |-> e]
            ELSE IF r.rc # 0
                 THEN [rc |-> -1, again |-> r.errno = "EEXIST", fs |-> fs, e |-> e]
                 ELSE IF fault = "utime"
                      THEN [rc |-> -1, again |-> FALSE, fs |-> r.dir, e |-> e]
                      ELSE [rc |-> 0, again |-> FALSE, fs |-> r.dir,
                            e |-> [e EXCEPT !.path = path]]
    IN Renamed(mutt_file_safe_rename(fs, tmp, path))

\* the first number above hi whose name is free: where the rename loop of
\* mh_commit_msg ends when no other process interferes
RECURSIVE FirstFree(_, _)
FirstFree(fs, hi) ==
    IF FormatDecimal(hi + 1) \in DOMAIN fs THEN FirstFree(fs, hi + 1) ELSE hi + 1

\* mh_commit_msg without updseq, the scan and the rename loop in one step
mh_commit_msg(fs, tmp, e, fault) ==
    LET Renamed(hi, r) ==
            IF fault \in {"fsync", "rename"} \/ r.rc # 0
            THEN [rc |-> -1, again |-> FALSE, fs |-> fs, e |-> e, hi |-> hi]
            ELSE [rc |-> 0, again |-> FALSE, fs |-> r.dir,
                  e |-> [e EXCEPT !.path = FormatDecimal(hi)], hi |-> hi]
        Numbered(hi) == Renamed(hi, mutt_file_safe_rename(fs, tmp, FormatDecimal(hi)))
    IN Numbered(FirstFree(fs, NextNumberScan(DOMAIN fs)))

RwCommit(magic, fs, tmp, e, u, fault) ==
    LET Committed(c) == [rc |-> c.rc, again |-> c.again, fs |-> c.fs, e |-> c.e]
    IN IF magic = MUTT_MAILDIR
       THEN md_commit_message(fs, tmp, e, u, fault)
       ELSE Committed(mh_commit_msg(fs, tmp, e, fault))

\* a rewrite that leaves the old file where it is
RwKeepOld(fs, oldpath) == fs

\* unlink(oldpath)
RwUnlinkOld(fs, oldpath) == DirRemove(fs, oldpath)

\* MH only: mutt_file_safe_rename(newpath, oldpath), then e->path = partpath
RwRenameBack(fs, e, partpath, fault) ==
    LET Renamed(r) ==
            IF fault = "renameback" \/ r.rc # 0
            THEN [rc |-> -1, fs |-> fs, e |-> e]
            ELSE [rc |-> 0, fs |-> r.dir, e |-> [e EXCEPT !.path = partpath]]
    IN Renamed(mutt_file_safe_rename(fs, e.path, partpath))

\* what can go wrong in one call of mh_rewrite_message
RewriteFaults == {"none", "open", "copy", "fsync", "rename", "utime", "renameback"}

\* mh_rewrite_message as one step; u1 names the temp file, u2 the new file
mh_rewrite_message(magic, fs, e, u1, u2, fault) ==
    LET Back(b) == [rc |-> b.rc, again |-> FALSE, fs |-> b.fs, e |-> b.e]
        Committed(c) ==
            IF c.rc # 0 THEN [rc |-> -1, again |-> c.again, fs |-> c.fs, e |-> c.e]
            ELSE IF magic = MUTT_MH
                 THEN Back(RwRenameBack(RwUnlinkOld(c.fs, e.path), c.e, e.path, fault))
                 ELSE [rc |-> 0, again |-> FALSE, fs |-> RwUnlinkOld(c.fs, e.path),
                       e |-> c.e]
        Opened(o) ==
            IF fault = "open" THEN [rc |-> -1, again |-> o.again, fs |-> fs, e |-> e]
            ELSE IF o.again THEN [rc |-> -1, again |-> TRUE, fs |-> fs, e |-> e]
            ELSE IF fault = "copy" THEN [rc |-> -1, again |-> FALSE, fs |-> o.fs, e |-> e]
            ELSE Committed(RwCommit(magic, RwCopy(o.fs, o.tmp), o.tmp, e, u2, fault))
    IN Opened(RwOpenNew(magic, fs, e, u1))

(***************************************************************************)
(* mh_rewrite_message, step by step (specification SpecRewrite)            *)
(***************************************************************************)

\* a file a scan of the folder takes for a message
IsMessageFile(magic, f) ==
    IF magic = MUTT_MAILDIR
    THEN SubdirOf(f) \in {<<"new">>, <<"cur">>}
    ELSE mh_valid_message(f)

\* folders and emails the rewrite may be called on
RewriteCases ==
    LET other == [msg |-> "m2", whole |-> TRUE]
        mine == [msg |-> "m1", whole |-> TRUE]
        mdpaths == { <<"new", "/", "a">>, <<"cur", "/", "a", ":", "2", ",", "S">>,
                     <<"cur", "/", "a", ":", "2", ",", "F", "S">> }
        md == { [magic |-> MUTT_MAILDIR,
                 fs |-> DirPut(DirPut(EmptyDir, <<"cur", "/", "u1", ":", "2", ",", "S">>, other),
                               p, mine),
                 e |-> [maildir_parse_flags(NewEmail(p, "m1"), p, FALSE)
                           EXCEPT !.old = (SubdirOf(p) = <<"cur">>),
                                  !.attach_del = TRUE, !.changed = TRUE]] : p \in mdpaths }
        mh == { [magic |-> MUTT_MH,
                 fs |-> DirPut(DirPut(DirPut(EmptyDir, <<"1">>, mine), <<"2">>, other), t, other),
                 e |-> [NewEmail(<<"1">>, "m1") EXCEPT !.attach_del = TRUE, !.changed = TRUE]]
                : t \in {<<",", "3">>, <<"4">>} }
    IN md \cup mh

InitRewrite ==
    /\ \E c \in RewriteCases, flagged \in BOOLEAN, deleted \in BOOLEAN :
          /\ files = c.fs
          /\ rw = [pc |-> "start", magic |-> c.magic, msg |-> c.e.msg, oldpath |-> c.e.path,
                   e |-> [c.e EXCEPT !.flagged = flagged, !.deleted = deleted],
                   tmp |-> <<>>, rc |-> 0]
    /\ seqfile = NoFile
    /\ IdleSeq
    /\ IdleCalc
    /\ IdleComp
    /\ IdleNotify
    /\ IdleDelivery
    /\ IdleCommit
    /\ IdleBox

\* mx_msg_open_new
RewriteOpenNew ==
    /\ rw.pc = "start"
    /\ \E u \in UniqPool :
          LET o == RwOpenNew(rw.magic, files, rw.e, u)
          IN /\ ~o.again
             /\ files' = o.fs
             /\ rw' = [rw EXCEPT !.pc = "opened", !.tmp = o.tmp]
    /\ UNCHANGED rewriteOthers

\* mx_msg_open_new returns NULL
RewriteOpenFails ==
    /\ rw.pc = "start"
    /\ rw' = [rw EXCEPT !.pc = "done", !.rc = -1]
    /\ UNCHANGED <<files, rewriteOthers>>

\* mutt_copy_message_ctx returns 0
RewriteCopy ==
    /\ rw.pc = "opened"
    /\ files' = RwCopy(files, rw.tmp)
    /\ rw' = [rw EXCEPT !.pc = "copied"]
    /\ UNCHANGED rewriteOthers

\* mutt_copy_message_ctx fails: mx_msg_close, return
RewriteCopyFails ==
    /\ rw.pc = "opened"
    /\ rw' = [rw EXCEPT !.pc = "done", !.rc = -1]
    /\ UNCHANGED <<files, rewriteOthers>>

\* md_commit_message / mh_commit_msg
RewriteCommit ==
    /\ rw.pc = "copied"
    /\ \E u \in UniqPool, fault \in {"none", "fsync", "rename", "utime"} :
          LET c == RwCommit(rw.magic, files, rw.tmp, rw.e, u, fault)
          IN /\ ~c.again
             /\ files' = c.fs
             /\ rw' = [rw EXCEPT !.e = c.e, !.rc = c.rc,
                                 !.pc = IF c.rc = 0 THEN "committed" ELSE "done"]
    /\ UNCHANGED rewriteOthers

\* unlink(oldpath)
RewriteUnlinkOld ==
    /\ rw.pc = "committed"
    /\ files' = RwUnlinkOld(files, rw.oldpath)
    /\ rw' = [rw EXCEPT !.pc = IF rw.magic = MUTT_MH THEN "unlinked" ELSE "done"]
    /\ UNCHANGED rewriteOthers

\* MH: move the new file to the old name
RewriteRenameBack ==
    /\ rw.pc = "unlinked"
    /\ \E fault \in {"none", "renameback"} :
          LET b == RwRenameBack(files, rw.e, rw.oldpath, fault)
          IN /\ files' = b.fs
             /\ rw' = [rw EXCEPT !.e = b.e, !.rc = b.rc, !.pc = "done"]
    /\ UNCHANGED rewriteOthers

NextRewrite ==
    \/ RewriteOpenNew
    \/ RewriteOpenFails
    \/ RewriteCopy
    \/ RewriteCopyFails
    \/ RewriteCommit
    \/ RewriteUnlinkOld
    \/ RewriteRenameBack

(***************************************************************************)
(* Claims about mh_rewrite_message                                         *)
(***************************************************************************)

\* the complete message files of the folder that hold the rewritten message
C1_Copies ==
    {f \in DOMAIN files :
        IsMessageFile(rw.magic, f) /\ files[f].msg = rw.msg /\ files[f].whole}

MUTT_NEW_MAIL == 1
MUTT_REOPENED == 3
MUTT_FLAGS == 4

\* the names readdir returns in a subdirectory ("" is the folder itself) and
\* maildir_parse_dir does not skip
ScanNames(magic, fs, subdir) ==
    IF magic = MUTT_MH
    THEN {f \in DOMAIN fs : mh_valid_message(f)}
    ELSE {f \in DOMAIN fs : SubdirOf(f) = <<subdir>> /\ f[3] # "."}

\* the order of the scan list: by path for MH (mh_sort_natural; strcmp and
\* the order of the numbers agree on the one-digit names used here), the
\* order of the inodes for Maildir
RECURSIVE OrderNames(_, _)
OrderNames(magic, S) ==
    IF S = {} THEN <<>>
    ELSE LET x == IF magic = MUTT_MH
                  THEN CHOOSE x \in S : \A y \in S : atoi(x) <= atoi(y)
                  ELSE CHOOSE x \in S : TRUE
         IN <<x>> \o OrderNames(magic, S \ {x})

\* the Email maildir_parse_dir queues for one name, with the message that
\* maildir_delayed_parsing reads from the file
ScanEntry(cfg, fs, f, subdir) ==
    LET e == [NewEmail(f, fs[f].msg) EXCEPT !.old = (cfg.MarkOld /\ subdir = "cur")]
    IN IF cfg.magic = MUTT_MAILDIR
       THEN maildir_parse_flags(e, Basename(f), cfg.FlagSafe)
       ELSE e

\* maildir_parse_dir; abort: opendir fails or SigInt is set when the loop
\* starts
maildir_parse_dir(cfg, fs, subdir, abort) ==
    LET Queue(names) ==
            [i \in 1..Len(names) |-> ScanEntry(cfg, fs, names[i], subdir)]
    IN IF abort THEN [rc |-> -2, md |-> <<>>]
       ELSE [rc |-> 0,
             md |-> Queue(OrderNames(cfg.magic, ScanNames(cfg.magic, fs, subdir)))]

\* the header cache key of a message file: the path for MH, path + 3 (the
\* name of the subdirectory is skipped, the slash stays) up to the last colon
\* for Maildir
HcacheKey(magic, path) ==
    IF magic = MUTT_MH THEN path
    ELSE LET key == Tail(path)
             c == strrchr(key, ":")
         IN IF c > 0 THEN StrBefore(key, c) ELSE key

\* maildir_delayed_parsing: the keys stored for the entries it parses
ParsedKeys(magic, md) == {HcacheKey(magic, md[i].path) : i \in 1..Len(md)}

\* mh_update_maildir
mh_update_maildir(md, mhs) ==
    [i \in 1..Len(md) |->
        LET n == mutt_str_atoi(Basename(md[i].path))
            f == mhs_check(mhs, n.val)
        IN IF n.rc < 0 THEN md[i]
           ELSE [md[i] EXCEPT !.read = MH_SEQ_UNSEEN \notin f,
                              !.flagged = MH_SEQ_FLAGGED \in f,
                              !.replied = MH_SEQ_REPLIED \in f]]

\* mutt_email_cmp_strict: the two emails have the same headers and body
mutt_email_cmp_strict(a, b) == a.msg = b.msg

\* maildir_update_flags: [e, header_changed]
maildir_update_flags(o, n) ==
    [e |-> [o EXCEPT !.flagged = n.flagged, !.replied = n.replied,
                     !.read = n.read, !.old = n.old, !.changed = FALSE],
     header_changed |-> \/ o.flagged # n.flagged \/ o.replied # n.replied
                        \/ o.read # n.read \/ o.old # n.old]

\* mx_update_tables that leaves the changed bits alone
UpdateTablesKeepsChanged(cfg, hdrs, committing) ==
    IF committing
    THEN SelectSeq(hdrs, LAMBDA e :
            ~e.deleted \/ (cfg.magic = MUTT_MAILDIR /\ cfg.MaildirTrash))
    ELSE SelectSeq(hdrs, LAMBDA e : e.active)

\* mx_update_tables: with committing the deleted emails go (unless a Maildir
\* keeps them as trash) and changed is cleared, without it the inactive ones go
mx_update_tables(cfg, hdrs, committing) ==
    IF committing
    THEN LET kept == SelectSeq(hdrs, LAMBDA e :
                        ~e.deleted \/ (cfg.magic = MUTT_MAILDIR /\ cfg.MaildirTrash))
         IN [i \in 1..Len(kept) |-> [kept[i] EXCEPT !.changed = FALSE]]
    ELSE SelectSeq(hdrs, LAMBDA e : e.active)

\* maildir_update_mtime
maildir_update_mtime(cfg, dm, seq, rec) ==
    IF cfg.magic = MUTT_MAILDIR
    THEN [rec EXCEPT !.mtime_cur = dm.cur, !.mtime = dm.new]
    ELSE [rec EXCEPT !.mtime_cur = IF seq.exists THEN dm.seq ELSE @, !.mtime = dm.root]

(***************************************************************************)
(* maildir_mbox_check                                                      *)
(***************************************************************************)

\* the test of both checks before maildir_update_flags: the user has changed
\* the flags of this email
UserChangedNever(h) == FALSE

UserChanged(h) == h.changed

\* mutt_hash_find(fnames, canonical name): the index of the scan entry, 0 when
\* there is none
FindCanon(md, name) ==
    IF \E j \in 1..Len(md) : maildir_canon_filename(md[j].path) = name
    THEN CHOOSE j \in 1..Len(md) : maildir_canon_filename(md[j].path) = name
    ELSE 0

\* the loop body taking the deleted bit of the scanned file whatever the
\* deleted and trash bits of the email
MergeOverwritesDeleted(st, md, i, changed) ==
    LET h == st.hdrs[i]
        Merged(j, p, u) ==
            LET del == u.e.deleted # p.deleted
            IN [st EXCEPT !.hdrs[i] = [u.e EXCEPT !.active = TRUE, !.path = p.path,
                                                  !.deleted = IF del THEN p.deleted ELSE @,
                                                  !.trash = p.trash],
                          !.taken = @ \cup {j},
                          !.flags_changed = @ \/ u.header_changed \/ del]
        Found(j) ==
            IF j > 0 /\ j \notin st.taken
            THEN Merged(j, md[j], IF ~UserChanged(h) THEN maildir_update_flags(h, md[j])
                                  ELSE [e |-> h, header_changed |-> FALSE])
            ELSE IF \/ ("new" \in changed /\ SubdirOf(h.path) = <<"new">>)
                    \/ ("cur" \in changed /\ SubdirOf(h.path) = <<"cur">>)
                 THEN [st EXCEPT !.hdrs[i].active = FALSE, !.occult = TRUE]
                 ELSE [st EXCEPT !.hdrs[i].active = TRUE]
    IN Found(FindCanon(md, maildir_canon_filename(h.path)))

\* the body of the loop over the existing messages, for hdrs[i]; st holds
\* the emails, the scan entries whose email has been taken, occult and
\* flags_changed
MaildirMerge(st, md, i, changed) ==
    LET h == st.hdrs[i]
        Merged(j, p, u) ==
            LET del == u.e.deleted = u.e.trash /\ u.e.deleted # p.deleted
            IN [st EXCEPT !.hdrs[i] = [u.e EXCEPT !.active = TRUE, !.path = p.path,
                                                  !.deleted = IF del THEN p.deleted ELSE @,
                                                  !.trash = p.trash],
                          !.taken = @ \cup {j},
                          !.flags_changed = @ \/ u.header_changed \/ del]
        Found(j) ==
            IF j > 0 /\ j \notin st.taken
            THEN Merged(j, md[j], IF ~UserChanged(h) THEN maildir_update_flags(h, md[j])
                                  ELSE [e |-> h, header_changed |-> FALSE])
            ELSE IF \/ ("new" \in changed /\ SubdirOf(h.path) = <<"new">>)
                    \/ ("cur" \in changed /\ SubdirOf(h.path) = <<"cur">>)
                 THEN [st EXCEPT !.hdrs[i].active = FALSE, !.occult = TRUE]
                 ELSE [st EXCEPT !.hdrs[i].active = TRUE]
    IN Found(FindCanon(md, maildir_canon_filename(h.path)))

RECURSIVE MaildirMergeAll(_, _, _, _)
MaildirMergeAll(st, md, i, changed) ==
    IF i > Len(st.hdrs) THEN st
    ELSE MaildirMergeAll(MaildirMerge(st, md, i, changed), md, i + 1, changed)

\* the scan entries that still hold their email: maildir_add_to_context
\* appends these
Untaken(md, taken) ==
    LET idx == SelectSeq([j \in 1..Len(md) |-> j], LAMBDA j : j \notin taken)
    IN [k \in 1..Len(idx) |-> md[idx[k]]]

\* the value a check returns
CheckResult(occult, have_new, flags_changed) ==
    IF occult THEN MUTT_REOPENED
    ELSE IF have_new THEN MUTT_NEW_MAIL
    ELSE IF flags_changed THEN MUTT_FLAGS
    ELSE 0

\* maildir_mbox_check; box holds hdrs, rec, mon and hcache
maildir_mbox_check(cfg, fs, dm, box, fault) ==
    LET changed == (IF dm.new > box.rec.mtime THEN {"new"} ELSE {})
                   \cup (IF dm.cur > box.rec.mtime_cur THEN {"cur"} ELSE {})
        rec2 == IF box.mon THEN box.rec
                ELSE [box.rec EXCEPT !.mtime_cur = dm.cur, !.mtime = dm.new]
        mdnew == IF "new" \in changed
                 THEN maildir_parse_dir(cfg, fs, "new", fault = "sigint").md ELSE <<>>
        mdcur == IF "cur" \in changed
                 THEN maildir_parse_dir(cfg, fs, "cur",
                                        fault = "sigint" /\ "new" \notin changed).md
                 ELSE <<>>
        Incorporate(st, fresh) ==
            [rc |-> CheckResult(st.occult, fresh # <<>>, st.flags_changed),
             box |-> [hdrs |-> (IF st.occult THEN mx_update_tables(cfg, st.hdrs, FALSE)
                                ELSE st.hdrs) \o fresh,
                      rec |-> rec2, mon |-> FALSE,
                      hcache |-> box.hcache \cup ParsedKeys(cfg.magic, fresh)]]
        Merged(md, st) == Incorporate(st, Untaken(md, st.taken))
        Scanned(md) ==
            Merged(md, MaildirMergeAll([hdrs |-> box.hdrs, taken |-> {}, occult |-> FALSE,
                                        flags_changed |-> FALSE], md, 1, changed))
    IN IF ~cfg.CheckNew \/ changed = {}
       THEN [rc |-> 0, box |-> box]
       ELSE Scanned(mdnew \o mdcur)

(***************************************************************************)
(* mh_mbox_check                                                           *)
(***************************************************************************)

\* a change of the folder's directories at the next tick of the clock;
\* touched names the directories whose entries change ("seq": .mh_sequences
\* itself is replaced)
Touch(dm, touched) ==
    IF touched = {} THEN dm
    ELSE [d \in DOMAIN dm |->
             IF d = "clock" \/ d \in touched THEN dm.clock + 1 ELSE dm[d]]

\* mutt_hash_find(fnames, path)
FindPath(md, path) ==
    IF \E j \in 1..Len(md) : md[j].path = path
    THEN CHOOSE j \in 1..Len(md) : md[j].path = path
    ELSE 0

\* the body of the loop over the existing messages, for hdrs[i]
MhMerge(st, md, i) ==
    LET h == st.hdrs[i]
        Merged(j, u) ==
            [st EXCEPT !.hdrs[i] = [u.e EXCEPT !.active = TRUE],
                       !.taken = @ \cup {j},
                       !.flags_changed = @ \/ u.header_changed]
        Found(j) ==
            IF j > 0 /\ j \notin st.taken /\ mutt_email_cmp_strict(h, md[j])
            THEN Merged(j, IF ~UserChanged(h) THEN maildir_update_flags(h, md[j])
                           ELSE [e |-> h, header_changed |-> FALSE])
            ELSE [st EXCEPT !.hdrs[i].active = FALSE, !.occult = TRUE]
    IN Found(FindPath(md, h.path))

RECURSIVE MhMergeAll(_, _, _)
MhMergeAll(st, md, i) ==
    IF i > Len(st.hdrs) THEN st
    ELSE MhMergeAll(MhMerge(st, md, i), md, i + 1)

\* the part of mh_mbox_check that creates a missing .mh_sequences:
\* mh_mkstemp, then mutt_file_safe_rename, unlink(tmp) when that fails
MhCreateSequences(seq, dm, fault) ==
    IF seq.exists \/ fault = "mkstemp" THEN [seq |-> seq, dm |-> dm]
    ELSE IF fault = "seqrename" THEN [seq |-> seq, dm |-> Touch(dm, {"root"})]
    ELSE [seq |-> FileOf(<<>>), dm |-> Touch(dm, {"root", "seq"})]

\* mh_mbox_check; junk is what the uninitialised st_cur holds when
\* .mh_sequences can be neither found nor created
mh_mbox_check(cfg, fs, seq, dm, box, fault, junk) ==
    LET st == dm.root
        Incorporate(c, rec2, hc2, m, fresh) ==
            [rc |-> CheckResult(m.occult, fresh # <<>>, m.flags_changed),
             seq |-> c.seq, dm |-> c.dm,
             box |-> [hdrs |-> (IF m.occult THEN mx_update_tables(cfg, m.hdrs, FALSE)
                                ELSE m.hdrs) \o fresh,
                      rec |-> rec2, mon |-> FALSE, hcache |-> hc2]]
        Merged(c, rec2, hc2, md, m) == Incorporate(c, rec2, hc2, m, Untaken(md, m.taken))
        Merge(c, rec2, hc2, md) ==
            Merged(c, rec2, hc2, md,
                   MhMergeAll([hdrs |-> box.hdrs, taken |-> {}, occult |-> FALSE,
                               flags_changed |-> FALSE], md, 1))
        Scanned(c, st_cur, scanned, rs) ==
            LET rec2 == IF box.mon THEN box.rec
                        ELSE [box.rec EXCEPT !.mtime_cur = st_cur, !.mtime = st]
                hc2 == box.hcache \cup ParsedKeys(cfg.magic, scanned)
            IN IF rs.rc < 0
               THEN [rc |-> -1, seq |-> c.seq, dm |-> c.dm,
                     box |-> [box EXCEPT !.rec = rec2, !.mon = FALSE, !.hcache = hc2]]
               ELSE Merge(c, rec2, hc2, mh_update_maildir(scanned, rs.mhs))
        Stat(c, st_cur) ==
            IF ~(\/ ~c.seq.exists
                 \/ st > box.rec.mtime
                 \/ st_cur > box.rec.mtime_cur)
            THEN [rc |-> 0, box |-> box, seq |-> c.seq, dm |-> c.dm]
            ELSE Scanned(c, st_cur, maildir_parse_dir(cfg, fs, "", fault = "sigint").md,
                         mh_read_sequences(c.seq))
        Created(c) == Stat(c, IF c.seq.exists THEN c.dm.seq ELSE junk)
    IN IF ~cfg.CheckNew THEN [rc |-> 0, box |-> box, seq |-> seq, dm |-> dm]
       ELSE Created(MhCreateSequences(seq, dm, fault))

(***************************************************************************)
(* Sync                                                                    *)
(***************************************************************************)

\* rename(2): the target is replaced when it exists
rename(fs, old, new) ==
    IF old \notin DOMAIN fs THEN [rc |-> -1, fs |-> fs]
    ELSE IF old = new THEN [rc |-> 0, fs |-> fs]
    ELSE [rc |-> 0, fs |-> DirRemove(DirPut(fs, new, fs[old]), old)]

\* unlink(2)
unlink(fs, path) == IF path \in DOMAIN fs THEN DirRemove(fs, path) ELSE fs

\* fresh names for which the loops of mx_msg_open_new and md_commit_message
\* end; none when the pool of names is used up
FreshNames(magic, fs, e) ==
    {u \in UniqPool \X UniqPool :
        ~mh_rewrite_message(magic, fs, e, u[1], u[2], "none").again}

\* the rewrite with the names its loops end with
Rewrite(magic, fs, e, fault) ==
    LET With(u) == mh_rewrite_message(magic, fs, e, u[1], u[2], fault)
        Pick(fresh) ==
            IF fresh = {} THEN [rc |-> -1, again |-> TRUE, fs |-> fs, e |-> e]
            ELSE With(CHOOSE u \in fresh : TRUE)
    IN Pick(FreshNames(magic, fs, e))

\* the else branch of maildir_sync_message: the file is renamed to its flags
MaildirRename(fs, e, fault) ==
    LET name == Basename(e.path)
        c == strchr(name, ":")
        newpath == IF c > 0 THEN StrBefore(name, c) ELSE name
        Renamed(partpath, r) ==
            IF partpath = e.path THEN [rc |-> 0, again |-> FALSE, fs |-> fs, e |-> e]
            ELSE IF fault = "rename" \/ r.rc # 0
                 THEN [rc |-> -1, again |-> FALSE, fs |-> fs,
                       e |-> [e EXCEPT !.trash = e.deleted]]
                 ELSE [rc |-> 0, again |-> FALSE, fs |-> r.fs,
                       e |-> [e EXCEPT !.trash = e.deleted, !.path = partpath]]
        Named(partpath) == Renamed(partpath, rename(fs, e.path, partpath))
    IN Named(<<IF e.read \/ e.old THEN "cur" ELSE "new", "/">>
                \o newpath \o maildir_gen_flags(e))

maildir_sync_message(fs, e, fault) ==
    IF e.attach_del THEN Rewrite(MUTT_MAILDIR, fs, e, fault)
    ELSE MaildirRename(fs, e, fault)

mh_sync_message(fs, e, fault) ==
    IF e.attach_del THEN Rewrite(MUTT_MH, fs, e, fault)
    ELSE [rc |-> 0, again |-> FALSE, fs |-> fs, e |-> e]

\* mh_sync_mailbox_message for the email e; hc is the header cache
mh_sync_mailbox_message(cfg, fs, hc, e, fault) ==
    LET key == HcacheKey(cfg.magic, e.path)
        tomb == <<",">> \o e.path
        Synced(s) ==
            IF s.rc # 0
            THEN [rc |-> -1, again |-> s.again, fs |-> s.fs, e |-> s.e, hc |-> hc,
                  rewrote |-> e.attach_del]
            ELSE [rc |-> 0, again |-> FALSE, fs |-> s.fs, e |-> s.e,
                  hc |-> IF s.e.changed THEN hc \cup {HcacheKey(cfg.magic, s.e.path)}
                         ELSE hc,
                  rewrote |-> e.attach_del]
    IN IF e.deleted /\ (cfg.magic # MUTT_MAILDIR \/ ~cfg.MaildirTrash)
       THEN IF cfg.magic = MUTT_MAILDIR \/ cfg.MhPurge
            THEN [rc |-> 0, again |-> FALSE, fs |-> unlink(fs, e.path), e |-> e,
                  hc |-> IF e.changed THEN hc \cup {key} ELSE hc \ {key},
                  rewrote |-> FALSE]
            ELSE [rc |-> 0, again |-> FALSE, e |-> e,
                  fs |-> IF e.path[1] # ","
                         THEN rename(unlink(fs, tomb), e.path, tomb).fs ELSE fs,
                  hc |-> IF e.changed THEN hc \cup {key} ELSE hc, rewrote |-> FALSE]
       ELSE IF \/ e.changed \/ e.attach_del
               \/ (cfg.magic = MUTT_MAILDIR /\ (cfg.MaildirTrash \/ e.trash)
                   /\ e.deleted # e.trash)
            THEN Synced(IF cfg.magic = MUTT_MAILDIR THEN maildir_sync_message(fs, e, fault)
                        ELSE mh_sync_message(fs, e, fault))
            ELSE [rc |-> 0, again |-> FALSE, fs |-> fs, e |-> e, hc |-> hc,
                  rewrote |-> FALSE]

\* the loop of mh_mbox_sync over the messages from i on; the fault strikes
\* at message `at`
RECURSIVE SyncLoop(_, _, _, _, _)
SyncLoop(cfg, st, i, fault, at) ==
    LET Synced(r) ==
            SyncLoop(cfg, [rc |-> r.rc, again |-> r.again, fs |-> r.fs, hc |-> r.hc,
                           hdrs |-> [st.hdrs EXCEPT ![i] = r.e],
                           rewrote |-> st.rewrote \/ r.rewrote],
                     i + 1, fault, at)
    IN IF i > Len(st.hdrs) \/ st.rc # 0 THEN st
       ELSE Synced(mh_sync_mailbox_message(cfg, st.fs, st.hc, st.hdrs[i],
                                           IF i = at THEN fault ELSE "none"))

\* mh_update_sequences as one step: mk and rn tell whether mh_mkstemp and the
\* final rename succeed
mh_update_sequences(old, hdrs, mk, rn) ==
    IF ~mk THEN old
    ELSE IF rn THEN FileOf(UpdateSequencesContent(old, hdrs))
    ELSE NoFile

\* the directories whose entries differ between fs1 and fs2
DirsChanged(magic, fs1, fs2) ==
    IF magic = MUTT_MH THEN (IF fs1 # fs2 THEN {"root"} ELSE {})
    ELSE {d \in {"new", "cur"} :
             {f \in DOMAIN fs1 : SubdirOf(f) = <<d>>} # {f \in DOMAIN fs2 : SubdirOf(f) = <<d>>}}

\* the check mh_mbox_sync and mx_mbox_check call for the folder's format
FormatCheck(cfg, fs, seq, dm, box, fault, junk) ==
    LET Maildir(r) == [rc |-> r.rc, box |-> r.box, seq |-> seq, dm |-> dm]
    IN IF cfg.magic = MUTT_MH THEN mh_mbox_check(cfg, fs, seq, dm, box, fault, junk)
       ELSE Maildir(maildir_mbox_check(cfg, fs, dm, box, fault))

\* whether mh_mbox_sync returns the result of its check at once
SyncStopsOnError(i) == i < 0

SyncStops(i) == i # 0

\* mh_mbox_sync; crc is what its check returned
mh_mbox_sync(cfg, fs, seq, dm, box, fault, at, junk) ==
    LET mk == ~(fault = "mkstemp" /\ seq.exists)
        rn == ~(fault = "seqrename" /\ seq.exists)
        Updated(chk, loop, seq2, dm2) ==
            [rc |-> 0, crc |-> chk.rc, again |-> FALSE, fs |-> loop.fs, seq |-> seq2,
             dm |-> dm2,
             box |-> [chk.box EXCEPT !.hdrs = loop.hdrs, !.hcache = loop.hc,
                         !.rec = maildir_update_mtime(cfg, dm2, seq2, chk.box.rec)]]
        Looped(chk, loop, moved) ==
            IF loop.rc # 0
            THEN [rc |-> -1, crc |-> chk.rc, again |-> loop.again, fs |-> loop.fs,
                  seq |-> chk.seq, dm |-> Touch(chk.dm, moved),
                  box |-> [chk.box EXCEPT !.hdrs = loop.hdrs, !.hcache = loop.hc]]
            ELSE Updated(chk, loop,
                         IF cfg.magic = MUTT_MH
                         THEN mh_update_sequences(chk.seq, loop.hdrs, mk, rn) ELSE chk.seq,
                         Touch(chk.dm, moved \cup (IF cfg.magic = MUTT_MH /\ mk
                                                   THEN {"root", "seq"} ELSE {})))
        Loop(chk, loop) ==
            Looped(chk, loop,
                   DirsChanged(cfg.magic, fs, loop.fs)
                      \cup (IF cfg.magic = MUTT_MH /\ loop.rewrote THEN {"root"} ELSE {}))
        Checked(chk) ==
            IF SyncStops(chk.rc)
            THEN [rc |-> chk.rc, crc |-> chk.rc, again |-> FALSE, fs |-> fs,
                  seq |-> chk.seq, dm |-> chk.dm, box |-> chk.box]
            ELSE Loop(chk, SyncLoop(cfg, [rc |-> 0, again |-> FALSE, fs |-> fs,
                                          hc |-> chk.box.hcache, hdrs |-> chk.box.hdrs,
                                          rewrote |-> FALSE], 1, fault, at))
    IN Checked(FormatCheck(cfg, fs, seq, dm, box, fault, junk))

(***************************************************************************)
(* Open                                                                    *)
(***************************************************************************)

\* mh_read_dir for one subdirectory ("" for an MH folder)
mh_read_dir(cfg, fs, seq, dm, box, subdir, abort) ==
    LET rec2 == maildir_update_mtime(cfg, dm, seq, box.rec)
        Parsed(sc, rs) ==
            LET hc2 == box.hcache \cup ParsedKeys(cfg.magic, sc.md)
            IN IF sc.rc < 0 THEN [rc |-> -1, box |-> [box EXCEPT !.rec = rec2]]
               ELSE IF rs.rc < 0
                    THEN [rc |-> -1, box |-> [box EXCEPT !.rec = rec2, !.hcache = hc2]]
                    ELSE [rc |-> 0,
                          box |-> [box EXCEPT
                                      !.hdrs = @ \o (IF cfg.magic = MUTT_MH
                                                     THEN mh_update_maildir(sc.md, rs.mhs)
                                                     ELSE sc.md),
                                      !.rec = rec2, !.hcache = hc2]]
    IN Parsed(maildir_parse_dir(cfg, fs, subdir, abort),
              IF cfg.magic = MUTT_MH THEN mh_read_sequences(seq)
              ELSE [rc |-> 0, mhs |-> EmptyMhs])

\* maildir_read_dir: new, then cur
maildir_read_dir(cfg, fs, seq, dm, box, fault) ==
    LET Cur(n) ==
            IF n.rc = -1 THEN n
            ELSE mh_read_dir(cfg, fs, seq, dm, n.box, "cur", fault = "opendir")
    IN Cur(mh_read_dir(cfg, fs, seq, dm, box, "new", fault = "sigint"))

(***************************************************************************)
(* The open mailbox and its folder (specification Spec)                    *)
(***************************************************************************)

MaxOps == 4
MaxMsgs == 2

Whole(m) == [msg |-> m, whole |-> TRUE]

\* the message files a Maildir may hold when the mailbox is opened
MaildirPool ==
    {<<"new", "/", "a">>, <<"cur", "/", "b", ":", "2", ",", "S">>,
     <<"cur", "/", "c", ":", "2", ",", "F", "T">>}

\* the message of a file of the pools
PoolMsg(f) ==
    CASE Basename(f)[1] \in {"a", "1"} -> "m1"
      [] Basename(f)[1] \in {"b", "2"} -> "m2"
      [] OTHER -> "m3"

\* .mh_sequences of an MH folder when the mailbox is opened
MhSeqPool ==
    {NoFile,
     FileOf(<<<<MhSeqUnseen, ":", " ", "1">>>>),
     FileOf(<<<<"pseq", ":", " ", "1">>, <<MhSeqFlagged, ":", " ", "1", "-", "2">>>>),
     FileOf(<<<<MhSeqUnseen, ":", " ", "1", "x">>>>)}

\* the files of messages deleted earlier that an MH folder may hold when the
\* mailbox is opened
MhTombPool == {{}, {<<",", "1">>}}

InitDisk ==
    \/ /\ conf \in [magic : {MUTT_MAILDIR}, MaildirTrash : BOOLEAN, MhPurge : {FALSE},
                   CheckNew : BOOLEAN, FlagSafe : {FALSE}, MarkOld : {TRUE}]
       /\ \E names \in SUBSET MaildirPool :
             /\ Cardinality(names) = MaxMsgs
             /\ <<"cur", "/", "b", ":", "2", ",", "S">> \in names
             /\ files = [f \in names |-> Whole(PoolMsg(f))]
       /\ seqfile = NoFile
    \/ /\ conf \in [magic : {MUTT_MH}, MaildirTrash : {FALSE}, MhPurge : BOOLEAN,
                   CheckNew : BOOLEAN, FlagSafe : {FALSE}, MarkOld : {TRUE}]
       /\ \E tombs \in MhTombPool :
             files = [f \in {FormatDecimal(k) : k \in 1..MaxMsgs} \cup tombs |->
                         IF f \in tombs THEN Whole("m0") ELSE Whole(PoolMsg(f))]
       /\ seqfile \in MhSeqPool

Init ==
    /\ InitDisk
    /\ dirmtime = [clock |-> 1, new |-> 1, cur |-> 1, root |-> 1, seq |-> 1]
    /\ emails = <<>>
    /\ mbox = NoBox
    /\ mon = FALSE
    /\ hcache = {}
    /\ last = [op |-> "none", n |-> 0, rc |-> 0, crc |-> 0, ext |-> FALSE, clean |-> TRUE]
    /\ nops = 0
    /\ IdleSeq
    /\ IdleCalc
    /\ IdleComp
    /\ IdleNotify
    /\ IdleDelivery
    /\ IdleCommit
    /\ IdleRewrite

Box == [hdrs |-> emails, rec |-> mbox, mon |-> mon, hcache |-> hcache]

SetBox(b) ==
    /\ emails' = b.hdrs
    /\ mbox' = b.rec
    /\ mon' = b.mon
    /\ hcache' = b.hcache

\* one more operation on the mailbox or the folder
Step ==
    /\ nops < MaxOps
    /\ nops' = nops + 1
    /\ UNCHANGED <<conf, boxOthers>>

\* the result of open, check or sync is recorded: the operation op was the
\* n-th step and returned rc (crc: what the check inside a sync returned);
\* ext tells whether another program has changed the folder since it was
\* opened, clean whether the folder is as the operation left it
Returned(op, rc, crc) ==
    last' = [last EXCEPT !.op = op, !.n = nops + 1, !.rc = rc, !.crc = crc,
                         !.ext = IF op = "open" THEN FALSE ELSE @, !.clean = TRUE]

\* mx_mbox_open: maildir_read_dir or mh_read_dir
Open ==
    LET Opened(r) ==
            /\ IF r.rc = 0
               THEN SetBox([r.box EXCEPT !.rec.opened = TRUE])
               ELSE SetBox([Box EXCEPT !.hcache = r.box.hcache])
            /\ Returned("open", r.rc, 0)
    IN /\ ~mbox.opened
       /\ Step
       /\ \E fault \in {"none", "sigint", "opendir"} :
             Opened(IF conf.magic = MUTT_MH
                    THEN mh_read_dir(conf, files, seqfile, dirmtime, Box, "",
                                     fault # "none")
                    ELSE maildir_read_dir(conf, files, seqfile, dirmtime, Box, fault))
       /\ UNCHANGED <<files, seqfile, dirmtime>>

\* what can go wrong in one check: SigInt or a failing opendir cuts the scan
\* short, mh_mkstemp or the rename fails when .mh_sequences is written
CheckFaults == {"none", "sigint", "mkstemp", "seqrename"}

\* the faults that make a difference in a folder of this format
CheckFaultsFor(cfg) ==
    IF cfg.magic = MUTT_MH THEN CheckFaults ELSE {"none", "sigint"}

\* the value of an uninitialised struct stat
JunkTimes == {0, MaxOps + 2}

\* the values of st_cur that matter: it stays uninitialised only when an MH
\* folder has no .mh_sequences
JunkFor(cfg, seq) == IF cfg.magic = MUTT_MH /\ ~seq.exists THEN JunkTimes ELSE {0}

\* mx_mbox_check: maildir_mbox_check or mh_mbox_check
Check ==
    LET Checked(r) ==
            /\ SetBox(r.box)
            /\ seqfile' = r.seq
            /\ dirmtime' = r.dm
            /\ Returned("check", r.rc, r.rc)
    IN /\ mbox.opened
       /\ Step
       /\ \E fault \in CheckFaultsFor(conf), junk \in JunkFor(conf, seqfile) :
             Checked(FormatCheck(conf, files, seqfile, dirmtime, Box, fault, junk))
       /\ UNCHANGED files

\* what can go wrong in one sync
SyncFaults == CheckFaults \cup {"open", "copy", "rename", "utime", "renameback"}

\* the messages at which a fault of the loop of mh_mbox_sync can strike:
\* those the loop rewrites or renames
SyncAt(cfg, hdrs, fault) ==
    IF fault \in CheckFaults THEN (IF fault \in CheckFaultsFor(cfg) THEN {1} ELSE {})
    ELSE {i \in 1..Len(hdrs) :
             \/ hdrs[i].attach_del
             \/ /\ fault = "rename" /\ cfg.magic = MUTT_MAILDIR
                /\ (hdrs[i].changed \/ hdrs[i].deleted \/ hdrs[i].trash)}

\* mx_mbox_sync: mh_mbox_sync, then mx_update_tables when it returned 0
Sync ==
    LET Synced(r) ==
            /\ ~r.again
            /\ files' = r.fs
            /\ seqfile' = r.seq
            /\ dirmtime' = r.dm
            /\ SetBox(IF r.rc = 0
                      THEN [r.box EXCEPT !.hdrs = mx_update_tables(conf, @, TRUE)]
                      ELSE r.box)
            /\ Returned("sync", r.rc, r.crc)
    IN /\ mbox.opened
       /\ Step
       /\ \E fault \in SyncFaults, junk \in JunkFor(conf, seqfile) :
          \E at \in SyncAt(conf, emails, fault) :
             Synced(mh_mbox_sync(conf, files, seqfile, dirmtime, Box, fault, at, junk))

\* mutt_set_flag and the deletion of an attachment, on the email at index i
mutt_set_flag(e, flag) ==
    CASE flag = "flagged" -> [e EXCEPT !.flagged = ~@, !.changed = TRUE]
      [] flag = "read" -> [e EXCEPT !.read = ~@, !.changed = TRUE]
      [] flag = "deleted" -> [e EXCEPT !.deleted = ~@]
      [] flag = "attach_del" -> [e EXCEPT !.attach_del = TRUE, !.changed = TRUE]

SetFlag ==
    /\ mbox.opened
    /\ Step
    /\ \E i \in 1..Len(emails), flag \in {"flagged", "read", "deleted", "attach_del"} :
          emails' = [emails EXCEPT ![i] = mutt_set_flag(@, flag)]
    /\ UNCHANGED <<files, seqfile, dirmtime, mbox, mon, hcache, last>>

\* the folder changes under the mailbox
Changed(external) ==
    last' = [last EXCEPT !.ext = @ \/ external, !.clean = FALSE]

\* another program delivers a message
ExtDeliver ==
    /\ Step
    /\ LET f == IF conf.magic = MUTT_MAILDIR THEN <<"new", "/", "d">>
                ELSE FormatDecimal(FirstFree(files, NextNumberScan(DOMAIN files)))
       IN /\ \A g \in DOMAIN files : files[g].msg # "m4"
          /\ files' = DirPut(files, f, Whole("m4"))
          /\ dirmtime' = Touch(dirmtime, IF conf.magic = MUTT_MAILDIR THEN {"new"} ELSE {"root"})
    /\ Changed(TRUE)
    /\ UNCHANGED <<seqfile, emails, mbox, mon, hcache>>

\* another program removes a message file
ExtRemove ==
    /\ Step
    /\ \E f \in DOMAIN files :
          /\ IsMessageFile(conf.magic, f)
          /\ files' = DirRemove(files, f)
          /\ dirmtime' = Touch(dirmtime, DirsChanged(conf.magic, files, files'))
    /\ Changed(TRUE)
    /\ UNCHANGED <<seqfile, emails, mbox, mon, hcache>>

\* another program changes the flags of a message: it renames the Maildir
\* file, or replaces .mh_sequences
ExtFlags ==
    LET Renamed(r) ==
            /\ files' = r.fs
            /\ dirmtime' = Touch(dirmtime, DirsChanged(conf.magic, files, r.fs))
        Flagged(e) == Renamed(MaildirRename(files, [e EXCEPT !.flagged = ~@, !.read = TRUE],
                                            "none"))
    IN /\ Step
       /\ IF conf.magic = MUTT_MAILDIR
          THEN /\ \E f \in DOMAIN files :
                     /\ IsMessageFile(conf.magic, f)
                     /\ Flagged(ScanEntry(conf, files, f, "cur"))
               /\ UNCHANGED seqfile
          ELSE /\ seqfile' \in MhSeqPool \ {seqfile, NoFile}
               /\ dirmtime' = Touch(dirmtime, {"root", "seq"})
               /\ UNCHANGED files
       /\ Changed(TRUE)
       /\ UNCHANGED <<emails, mbox, mon, hcache>>

\* this process appends a message to the open mailbox: mx_msg_open_new, the
\* copy, mx_msg_commit
Commit ==
    LET Committed(read, c, updseq) ==
            /\ ~c.again
            /\ files' = c.fs
            /\ seqfile' = IF updseq
                          THEN mh_sequences_add_one(seqfile, c.hi, ~read, FALSE, FALSE,
                                                    TRUE, TRUE)
                          ELSE seqfile
            /\ dirmtime' = Touch(dirmtime, DirsChanged(conf.magic, files, c.fs)
                                              \cup (IF updseq THEN {"seq"} ELSE {}))
        Copied(read, c) == Committed(read, c, conf.magic = MUTT_MH /\ c.rc = 0)
        Opened(read, e, o, u, fault) ==
            /\ ~o.again
            /\ Copied(read, IF conf.magic = MUTT_MAILDIR
                            THEN md_commit_message(RwCopy(o.fs, o.tmp), o.tmp, e, u, fault)
                            ELSE mh_commit_msg(RwCopy(o.fs, o.tmp), o.tmp, e, fault))
        New(read, e, u, fault) ==
            Opened(read, e, RwOpenNew(conf.magic, files, e, u[1]), u[2], fault)
    IN /\ mbox.opened
       /\ Step
       /\ \A g \in DOMAIN files : files[g].msg # "m5"
       /\ \E read \in BOOLEAN, fault \in {"none", "rename"}, u \in UniqPool \X UniqPool :
             New(read, [NewEmail(<<>>, "m5") EXCEPT !.read = read], u, fault)
       /\ Changed(FALSE)
       /\ UNCHANGED <<emails, mbox, mon, hcache>>

\* the monitor reports a change of the folder
Monitor ==
    /\ mbox.opened
    /\ ~last.clean
    /\ ~mon
    /\ mon' = TRUE
    /\ UNCHANGED <<files, seqfile, conf, dirmtime, emails, mbox, hcache, last, nops, boxOthers>>

Next ==
    \/ Open
    \/ Check
    \/ Sync
    \/ SetFlag
    \/ ExtDeliver
    \/ ExtRemove
    \/ ExtFlags
    \/ Commit
    \/ Monitor

(***************************************************************************)
(* Claims about the open mailbox                                           *)
(***************************************************************************)

\* the step is the operation op
IsStep(op) == nops' = nops + 1 /\ last'.op = op /\ last'.n = nops'

\* the flags a check may replace by those found on disk
UserFlags(e) == <<e.flagged, e.replied, e.read, e.old>>

\* C6: as long as no other program changes the folder, the path of every
\* Email of the open mailbox names an existing file of the folder.
C6_PathsExist ==
    (mbox.opened /\ ~last.ext) =>
        \A i \in 1..Len(emails) : emails[i].path \in DOMAIN files

\* C7: with check_new on, a check that follows a successful open, check or
\* sync with no change on disk in between returns 0 and leaves the emails,
\* their flags and the recorded mtimes as they are.
C7_NextCheckUnchanged ==
    [][(/\ IsStep("check")
        /\ mbox.opened
        /\ conf.CheckNew
        /\ last.op \in {"open", "check", "sync"}
        /\ last.rc >= 0
        /\ last.clean)
       => (last'.rc = 0 /\ emails' = emails /\ mbox' = mbox)]_vars

\* C8 as stated: when the check inside mh_mbox_sync returns a non-zero
\* result, sync returns that result and the message files, the header cache
\* and .mh_sequences are what they were before the sync.
C8_SyncStopsUntouched ==
    [][(IsStep("sync") /\ last'.crc # 0)
       => (/\ last'.rc = last'.crc
           /\ files' = files
           /\ hcache' = hcache
           /\ seqfile' = seqfile)]_vars

\* C8, amended: when the check inside mh_mbox_sync returns a non-zero result,
\* sync returns that result, no message file is unlinked, renamed or
\* rewritten, and the mailbox, the header cache and .mh_sequences are exactly
\* as the check alone leaves them: .mh_sequences is at most created empty and
\* the header cache only gains entries.
C8_SyncStopsAfterCheck ==
    [][(IsStep("sync") /\ last'.crc # 0)
       => (/\ last'.rc = last'.crc
           /\ files' = files
           /\ \E fault \in CheckFaultsFor(conf), junk \in JunkFor(conf, seqfile) :
                 FormatCheck(conf, files, seqfile, dirmtime, Box, fault, junk)
                    = [rc |-> last'.rc, box |-> Box', seq |-> seqfile', dm |-> dirmtime']
           /\ seqfile' = seqfile \/ (~seqfile.exists /\ seqfile' = FileOf(<<>>))
           /\ hcache \subseteq hcache')]_vars

\* a sync has just returned the non-zero result of its check and has left a
\* deleted message in its file
C8_Witness ==
    /\ last.op = "sync" /\ last.n = nops
    /\ last.crc # 0 /\ last.rc = last.crc
    /\ \E i \in 1..Len(emails) : emails[i].deleted /\ emails[i].path \in DOMAIN files

\* no file of the Maildir has the canonical name of the email's file
FileGone(e) ==
    \A f \in DOMAIN files : maildir_canon_filename(f) # maildir_canon_filename(e.path)

\* the mtime of the email's subdirectory is past the recorded one
DirAdvanced(e) ==
    IF SubdirOf(e.path) = <<"new">> THEN dirmtime.new > mbox.mtime
    ELSE dirmtime.cur > mbox.mtime_cur

\* C9: when the file of a loaded Maildir message has been removed and the
\* mtime of its directory has advanced, the next check (check_new on) returns
\* MUTT_REOPENED, the email is no longer in the array, and every email whose
\* file exists is still in it.
C9_RemovedFileReopens ==
    [][(/\ IsStep("check")
        /\ conf.magic = MUTT_MAILDIR
        /\ conf.CheckNew
        /\ mbox.opened
        /\ \E i \in 1..Len(emails) : FileGone(emails[i]) /\ DirAdvanced(emails[i]))
       => (/\ last'.rc = MUTT_REOPENED
           /\ \A i \in 1..Len(emails) :
                 /\ (FileGone(emails[i]) /\ DirAdvanced(emails[i]))
                       => \A j \in 1..Len(emails') : emails'[j].path # emails[i].path
                 /\ emails[i].path \in DOMAIN files
                       => \E j \in 1..Len(emails') : emails'[j].msg = emails[i].msg)]_vars

\* the emails the user has changed, with the flags a check could replace
ChangedFlags(hdrs) ==
    LET ch == SelectSeq(hdrs, LAMBDA e : e.changed)
    IN [k \in 1..Len(ch) |-> <<ch[k].msg, UserFlags(ch[k])>>]

\* s is t with some elements left out
RECURSIVE IsSubSeq(_, _)
IsSubSeq(s, t) ==
    IF s = <<>> THEN TRUE
    ELSE IF t = <<>> THEN FALSE
    ELSE IF Head(s) = Head(t) THEN IsSubSeq(Tail(s), Tail(t))
    ELSE IsSubSeq(s, Tail(t))

\* C10: a check leaves flagged, replied, read and old of every email whose
\* changed bit is set as they are, whatever the disk says; when the check
\* drops emails (MUTT_REOPENED), the changed emails that remain are changed
\* emails of before, in their order and with their flags.
C10_ChangedKeepsFlags ==
    [][IsStep("check")
       => IF last'.rc = MUTT_REOPENED
          THEN IsSubSeq(ChangedFlags(emails'), ChangedFlags(emails))
          ELSE \A i \in 1..Len(emails) :
                  emails[i].changed
                     => /\ i <= Len(emails')
                        /\ emails'[i].msg = emails[i].msg
                        /\ emails'[i].changed
                        /\ UserFlags(emails'[i]) = UserFlags(emails[i])]_vars

\* the flags .mh_sequences gives the message of an email
DiskFlags(e) ==
    LET f == mhs_check(mh_read_sequences(seqfile).mhs, mutt_str_atoi(e.path).val)
    IN <<MH_SEQ_FLAGGED \in f, MH_SEQ_REPLIED \in f, MH_SEQ_UNSEEN \notin f>>

\* the fourth step was the first check after the MH mailbox was opened, the
\* user changed a flag and another program changed the folder; the email
\* the user changed differs from what .mh_sequences says
C10_Witness ==
    /\ conf.magic = MUTT_MH /\ conf.CheckNew
    /\ nops = 4 /\ last.op = "check" /\ last.n = 4 /\ last.rc >= 0 /\ last.ext
    /\ \E i \in 1..Len(emails) :
          /\ emails[i].changed
          /\ emails[i].path \in DOMAIN files
          /\ DiskFlags(emails[i]) # <<emails[i].flagged, emails[i].replied, emails[i].read>>

\* the names of a Maildir message in cur/ without and with the flag T
TrashPairs ==
    {<<<<"cur", "/", "b", ":", "2", ",", "S">>, <<"cur", "/", "b", ":", "2", ",", "S", "T">>>>,
     <<<<"cur", "/", "c", ":", "2", ",", "F">>, <<"cur", "/", "c", ":", "2", ",", "F", "T">>>>}

\* the email was renamed by the sync from the name old to the name new and
\* its file still holds its message
RenamedTo(e, e2, old, new) ==
    /\ e2.path = new
    /\ new \in DOMAIN files'
    /\ files'[new].msg = e.msg
    /\ old \notin DOMAIN files'

Tombstone(path) == <<",">> \o path

\* C12: a sync of an MH mailbox that returns 0 leaves no file n for a deleted
\* message n; with mh_purge off the file ,n holds what file n held, whatever
\* ,n held before; with mh_purge on no file ,n is created.
C12_DeletedMoved ==
    [][(/\ IsStep("sync")
        /\ conf.magic = MUTT_MH
        /\ last'.rc = 0)
       => \A i \in 1..Len(emails) :
             (emails[i].deleted /\ emails[i].path \in DOMAIN files)
                => LET n == emails[i].path
                   IN /\ n \notin DOMAIN files'
                      /\ IF conf.MhPurge
                         THEN /\ Tombstone(n) \in DOMAIN files' <=> Tombstone(n) \in DOMAIN files
                              /\ Tombstone(n) \in DOMAIN files'
                                    => files'[Tombstone(n)] = files[Tombstone(n)]
                         ELSE /\ Tombstone(n) \in DOMAIN files'
                              /\ files'[Tombstone(n)] = files[n]]_vars

\* C12, the commit: a message committed to an MH folder gets a number above
\* the n of every file ,n of the folder.
C12_CommitAboveTombstones ==
    [][\A f \in DOMAIN files' \ DOMAIN files :
          (conf.magic = MUTT_MH /\ files'[f].msg = "m5" /\ mh_valid_message(f))
             => \A g \in DOMAIN files :
                   (g[1] = "," /\ mh_valid_message(Tail(g))) => atoi(f) > atoi(Tail(g))]_vars

C13_RenameBackFailureAccepted ==
    (/\ rw.pc = "done"
     /\ rw.magic = MUTT_MH
     /\ rw.oldpath \notin DOMAIN files
     /\ rw.e.path # rw.oldpath)
       => /\ rw.rc = 0
          /\ rw.e.path \in DOMAIN files
          /\ files[rw.e.path].msg = rw.msg

FlagEmail(flagged, replied, read, old, deleted, letters) ==
    [NewEmail(<<>>, "m1") EXCEPT !.flagged = flagged, !.replied = replied,
                                  !.read = read, !.old = old, !.deleted = deleted,
                                  !.maildir_flags = letters]

\* names of Maildir message files, two of them with a ':' in the unique part
CalcNames ==
    {<<"new", "/", "u">>, <<"cur", "/", "u", ":", "2", ",", "S">>,
     <<"cur", "/", "u", ":", "x", ":", "2", ",", "S">>, <<"new", "/", "u", ":", "x">>}

\* the calls of the rename branch of maildir_sync_message
SyncRenameCalls ==
    {[fn |-> "sync_rename", path |-> p, pc |-> "call",
      e |-> FlagEmail(fl, rp, rd, ol, dl, <<>>)] :
        p \in CalcNames, fl \in BOOLEAN, rp \in BOOLEAN, rd \in BOOLEAN, ol \in BOOLEAN,
        dl \in BOOLEAN}

\* maildir_sync_message, rename branch, on a folder that holds the file
CalcSyncRename ==
    LET Renamed(r) == calc' = [calc EXCEPT !.pc = "done", !.e = r.e]
    IN /\ calc.fn = "sync_rename"
       /\ calc.pc = "call"
       /\ Renamed(MaildirRename(DirPut(EmptyDir, calc.path, Whole("m1")),
                                [calc.e EXCEPT !.path = calc.path], "none"))
       /\ UNCHANGED calcOthers

\* the calls of maildir_msg_open_new and md_commit_message for a new message
CommitCalls ==
    {[fn |-> "commit", path |-> <<>>, pc |-> "call", tmp |-> <<>>,
      e |-> FlagEmail(fl, rp, rd, ol, dl, <<>>),
      e0 |-> FlagEmail(fl, rp, rd, ol, dl, <<>>)] :
        fl \in BOOLEAN, rp \in BOOLEAN, rd \in BOOLEAN, ol \in BOOLEAN, dl \in BOOLEAN}

\* maildir_msg_open_new, the copy and md_commit_message in an empty folder
CalcCommit ==
    LET Committed(o, c) == calc' = [calc EXCEPT !.pc = "done", !.e = c.e, !.tmp = o.tmp]
        Opened(o) ==
            Committed(o, md_commit_message(RwCopy(o.fs, o.tmp), o.tmp, calc.e, "u2",
                                           "none"))
    IN /\ calc.fn = "commit"
       /\ calc.pc = "call"
       /\ Opened(RwOpenNew(MUTT_MAILDIR, EmptyDir, calc.e, "u1"))
       /\ UNCHANGED calcOthers

\* strings of preserved flag letters, as an earlier maildir_parse_flags left
\* them in e->maildir_flags; the last one does not fit into suffix[16]
\* together with F, R, S and T
PreservedPool ==
    {<<>>, <<"a">>, <<"b", "a">>, <<"D", "P">>,
     <<"a", "a", "a", "a", "a", "a", "a", "a", "a">>}

\* the calls of maildir_gen_flags whose result maildir_parse_flags decodes
RoundTripCalls ==
    {[fn |-> "round_trip", pc |-> "call", flagsafe |-> fs, suffix |-> <<>>,
      e |-> FlagEmail(fl, rp, rd, FALSE, dl, letters), out |-> NewEmail(<<>>, "m1")] :
        fl \in BOOLEAN, rp \in BOOLEAN, rd \in BOOLEAN, dl \in BOOLEAN,
        letters \in PreservedPool, fs \in BOOLEAN}

MaxFlagLetters == 3

\* the flag letters after ":2," in every order: strings of distinct letters
FlagStrings ==
    {s \in UNION {[1..n -> {"F", "R", "S", "T", "a"}] : n \in 0..MaxFlagLetters} :
        \A i, j \in 1..Len(s) : s[i] = s[j] => i = j}

\* the calls of maildir_parse_flags on a name that ends in ":2,<letters>"
ParseFlagsCalls ==
    {[fn |-> "parse_flags", pc |-> "encoded", flagsafe |-> fs, suffix |-> <<":", "2", ",">> \o s,
      e |-> NewEmail(<<>>, "m1"), out |-> NewEmail(<<>>, "m1")] :
        s \in FlagStrings, fs \in BOOLEAN}

\* maildir_gen_flags(suffix, sizeof(suffix), e)
CalcGenFlags ==
    /\ calc.fn = "round_trip"
    /\ calc.pc = "call"
    /\ calc' = [calc EXCEPT !.pc = "encoded", !.suffix = maildir_gen_flags(calc.e)]
    /\ UNCHANGED calcOthers

\* maildir_parse_flags on a fresh email and the name cur/u<suffix>
CalcParseFlags ==
    /\ calc.fn \in {"round_trip", "parse_flags"}
    /\ calc.pc = "encoded"
    /\ calc' = [calc EXCEPT !.pc = "done",
                            !.out = maildir_parse_flags(NewEmail(<<>>, "m1"),
                                                        <<"cur", "/", "u">> \o calc.suffix,
                                                        calc.flagsafe)]
    /\ UNCHANGED calcOthers

\* message numbers of the MH emails handed to mh_update_sequences
SeqNumbers == <<1, 2, 10>>

\* the emails of an MH mailbox: each number absent, or present with any flags
RECURSIVE SeqHdrsFrom(_)
SeqHdrsFrom(k) ==
    IF k > Len(SeqNumbers) THEN {<<>>}
    ELSE LET rest == SeqHdrsFrom(k + 1)
             heads == {[NewEmail(FormatDecimal(SeqNumbers[k]), "m1")
                           EXCEPT !.read = r, !.flagged = f, !.replied = p, !.deleted = d] :
                       r \in BOOLEAN, f \in BOOLEAN, p \in BOOLEAN, d \in BOOLEAN}
         IN rest \cup {<<e>> \o q : e \in heads, q \in rest}

\* the .mh_sequences the writer finds: none, lines of the three sequences
\* from an earlier state of the folder, lines of other sequences
OldSeqPool ==
    {NoFile,
     FileOf(<<<<MhSeqUnseen, ":", " ", "1", "-", "3">>, <<MhSeqReplied, ":", " ", "1", "0">>>>),
     FileOf(<<<<"cur", ":", " ", "2">>, <<MhSeqFlagged, ":", " ", "2", " ", "1", "1">>>>)}

SequencesCalls ==
    {[fn |-> "sequences", pc |-> "call", old |-> o, hdrs |-> h,
      written |-> NoFile, rc |-> 0, mhs |-> EmptyMhs] :
     o \in OldSeqPool, h \in SeqHdrsFrom(1)}

\* mh_update_sequences: the table collected from the emails, written after
\* the lines of other sequences
CalcUpdateSequences ==
    /\ calc.fn = "sequences"
    /\ calc.pc = "call"
    /\ calc' = [calc EXCEPT !.pc = "written",
                            !.written = FileOf(UpdateSequencesContent(calc.old, calc.hdrs))]
    /\ UNCHANGED calcOthers

\* mh_read_sequences on the file just written
CalcReadSequences ==
    /\ calc.fn = "sequences"
    /\ calc.pc = "written"
    /\ LET Do(r) == calc' = [calc EXCEPT !.pc = "done", !.rc = r.rc, !.mhs = r.mhs]
       IN Do(mh_read_sequences(calc.written))
    /\ UNCHANGED calcOthers

\* indices that may carry the flag written, and indices that may carry
\* another flag
RunIndices == {0, 3, 4, 5, 7, 9, 10}
OtherIndices == {4, 6, 8}

TagOf(f) ==
    IF f = MH_SEQ_UNSEEN THEN MhSeqUnseen
    ELSE IF f = MH_SEQ_FLAGGED THEN MhSeqFlagged
    ELSE MhSeqReplied

RECURSIVE mhs_set_all(_, _, _)
mhs_set_all(mhs, S, f) ==
    IF S = {} THEN mhs
    ELSE LET i == CHOOSE i \in S : TRUE
         IN mhs_set_all(mhs_set(mhs, i, f), S \ {i}, f)

WriteOneCalls ==
    {[fn |-> "write_one", pc |-> "call", f |-> f, set |-> S, tag |-> TagOf(f),
      mhs |-> mhs_set_all(mhs_set_all(EmptyMhs, S, f), N, g), out |-> <<>>] :
     f \in {MH_SEQ_UNSEEN, MH_SEQ_FLAGGED}, g \in {MH_SEQ_REPLIED},
     S \in SUBSET RunIndices, N \in {{}, OtherIndices}}

\* mhs_write_one_sequence: the tag, the runs, the newline
CalcWriteOne ==
    /\ calc.fn = "write_one"
    /\ calc.pc = "call"
    /\ calc' = [calc EXCEPT !.pc = "done",
                            !.out = mhs_write_one_sequence(calc.mhs, calc.f, calc.tag)
                                        \o <<"\n">>]
    /\ UNCHANGED calcOthers

\* the list of a directory scan, one entry per file name; has tells whether
\* the entry still has its Email (p->email is not NULL)
ScanList(magic, names) ==
    LET ord == OrderNames(magic, names)
    IN [i \in 1..Len(ord) |->
           [e |-> NewEmail(ord[i], PoolMsg(ord[i])), has |-> TRUE, header_parsed |-> FALSE]]

ScanFolders ==
    {[magic |-> MUTT_MH, names |-> {<<"1">>, <<"2">>}],
     [magic |-> MUTT_MH, names |-> {<<"2">>}],
     [magic |-> MUTT_MAILDIR,
      names |-> {<<"new", "/", "a">>, <<"cur", "/", "b", ":", "2", ",", "S">>}]}

\* the scans of open (mh_read_dir) and of mh_mbox_check: the files listed,
\* those that fopen cannot open when their headers are to be parsed, whether
\* $sort is the mailbox order, the sequence table of an MH folder
ScanCalls ==
    UNION {{[fn |-> "scan", pc |-> "listed", op |-> op, magic |-> d.magic,
             md |-> ScanList(d.magic, d.names), gone |-> g, natural |-> n, mhs |-> t,
             hdrs |-> <<>>] :
            op \in {"open", "check"}, g \in SUBSET d.names, n \in BOOLEAN,
            t \in {EmptyMhs, mhs_set(EmptyMhs, 2, MH_SEQ_UNSEEN)}} :
           d \in ScanFolders}

\* what reading p->email->path of an entry whose email is NULL can lead to:
\* the process is killed, or the read goes through and the loop goes on
NullDeref == {"killed", "survived"}

NullEntry(md) == \E i \in 1..Len(md) : ~md[i].has

\* maildir_delayed_parsing: an entry whose file cannot be opened loses its
\* Email; then mh_sort_natural sorts the list with md_cmp_path, which reads
\* the path of both entries it compares
CalcDelayedParsing ==
    /\ calc.fn = "scan"
    /\ calc.pc = "listed"
    /\ LET md2 == [i \in 1..Len(calc.md) |->
                      IF calc.md[i].e.path \in calc.gone
                      THEN [calc.md[i] EXCEPT !.has = FALSE]
                      ELSE [calc.md[i] EXCEPT !.header_parsed = TRUE]]
           sorts == calc.magic = MUTT_MH /\ calc.natural /\ Len(md2) >= 2
       IN IF sorts /\ NullEntry(md2)
          THEN \E u \in NullDeref :
                  calc' = [calc EXCEPT !.md = md2,
                                       !.pc = IF u = "killed" THEN "killed" ELSE "parsed"]
          ELSE calc' = [calc EXCEPT !.md = md2, !.pc = "parsed"]
    /\ UNCHANGED calcOthers

\* mh_update_maildir: the flags of the sequence table, for every entry of the
\* list
CalcUpdateMaildir ==
    /\ calc.fn = "scan"
    /\ calc.pc = "parsed"
    /\ calc.magic = MUTT_MH
    /\ LET live == SelectSeq(calc.md, LAMBDA p : p.has)
           upd == mh_update_maildir([i \in 1..Len(live) |-> live[i].e], calc.mhs)
           Flags(path) == LET k == CHOOSE k \in 1..Len(upd) : upd[k].path = path
                          IN upd[k]
           md2 == [i \in 1..Len(calc.md) |->
                      IF calc.md[i].has
                      THEN [calc.md[i] EXCEPT !.e = Flags(calc.md[i].e.path)]
                      ELSE calc.md[i]]
       IN IF NullEntry(calc.md)
          THEN \E u \in NullDeref :
                  calc' = [calc EXCEPT !.md = md2,
                                       !.pc = IF u = "killed" THEN "killed" ELSE "flagged"]
          ELSE calc' = [calc EXCEPT !.md = md2, !.pc = "flagged"]
    /\ UNCHANGED calcOthers

\* mh_mbox_check: the hash of the names scanned, keyed by p->email->path
CalcHashNames ==
    /\ calc.fn = "scan"
    /\ calc.pc = "flagged"
    /\ calc.op = "check"
    /\ IF NullEntry(calc.md)
       THEN \E u \in NullDeref :
               calc' = [calc EXCEPT !.pc = IF u = "killed" THEN "killed" ELSE "hashed"]
       ELSE calc' = [calc EXCEPT !.pc = "hashed"]
    /\ UNCHANGED calcOthers

\* maildir_move_to_context: the emails of the entries that have one
CalcMoveToContext ==
    /\ calc.fn = "scan"
    /\ \/ calc.magic = MUTT_MAILDIR /\ calc.pc = "parsed"
       \/ calc.magic = MUTT_MH /\ calc.op = "open" /\ calc.pc = "flagged"
       \/ calc.magic = MUTT_MH /\ calc.op = "check" /\ calc.pc = "hashed"
    /\ LET live == SelectSeq(calc.md, LAMBDA p : p.has)
       IN calc' = [calc EXCEPT !.pc = "done",
                               !.hdrs = [i \in 1..Len(live) |-> live[i].e]]
    /\ UNCHANGED calcOthers

\* the names under which the file of the message cur/b:2,S is found by the
\* scan of a check
MergeNames ==
    {<<"cur", "/", "b", ":", "2", ",", "S">>, <<"cur", "/", "b", ":", "2", ",", "S", "T">>,
     <<"cur", "/", "b", ":", "2", ",", "F", "T">>, <<"new", "/", "b">>}

\* the calls of the loop body of maildir_mbox_check: an email of the mailbox
\* with its deleted, trash and changed bits, and the file the scan finds
MergeCalls ==
    {[fn |-> "merge", pc |-> "call", flagsafe |-> fs, name |-> n,
      h |-> [NewEmail(<<"cur", "/", "b", ":", "2", ",", "S">>, "m2") EXCEPT
                !.read = TRUE, !.deleted = d, !.trash = t, !.changed = c],
      p |-> NewEmail(n, "m2"), out |-> NewEmail(n, "m2")] :
        fs \in BOOLEAN, n \in MergeNames, d \in BOOLEAN, t \in BOOLEAN, c \in BOOLEAN}

\* maildir_mbox_check: the scan of the subdirectory that holds the file, then
\* the loop over the existing messages
CalcMaildirMerge ==
    /\ calc.fn = "merge"
    /\ calc.pc = "call"
    /\ LET cfg == [magic |-> MUTT_MAILDIR, MaildirTrash |-> FALSE, MhPurge |-> FALSE,
                   CheckNew |-> TRUE, FlagSafe |-> calc.flagsafe, MarkOld |-> TRUE]
           sub == IF SubdirOf(calc.name) = <<"new">> THEN "new" ELSE "cur"
           md == maildir_parse_dir(cfg, [f \in {calc.name} |-> Whole("m2")], sub, FALSE).md
           Done(st) == calc' = [calc EXCEPT !.pc = "done", !.p = md[1], !.out = st.hdrs[1]]
       IN Done(MaildirMergeAll([hdrs |-> <<calc.h>>, taken |-> {}, occult |-> FALSE,
                                flags_changed |-> FALSE], md, 1, {sub}))
    /\ UNCHANGED calcOthers

CalcCalls ==
    SyncRenameCalls \cup CommitCalls \cup RoundTripCalls \cup ParseFlagsCalls
        \cup SequencesCalls \cup WriteOneCalls \cup ScanCalls \cup MergeCalls

InitCalc ==
    /\ calc \in CalcCalls
    /\ files = EmptyDir
    /\ seqfile = NoFile
    /\ IdleSeq
    /\ IdleComp
    /\ IdleNotify
    /\ IdleDelivery
    /\ IdleCommit
    /\ IdleRewrite
    /\ IdleBox

NextCalc ==
    \/ CalcSyncRename
    \/ CalcCommit
    \/ CalcGenFlags
    \/ CalcParseFlags
    \/ CalcUpdateSequences
    \/ CalcReadSequences
    \/ CalcWriteOne
    \/ CalcDelayedParsing
    \/ CalcUpdateMaildir
    \/ CalcHashNames
    \/ CalcMoveToContext
    \/ CalcMaildirMerge

\* C34: a check, of a Maildir or an MH folder, does not remove from the
\* mailbox an email whose file is still in the folder, also when the scan of
\* the check is cut short: after the check the mailbox holds an active email
\* for the same file.
C34_CheckKeepsExisting ==
    [][IsStep("check") =>
          \A i \in 1..Len(emails) :
             (/\ emails[i].path \in DOMAIN files
              /\ files[emails[i].path].msg = emails[i].msg) =>
                \E j \in 1..Len(emails') :
                   /\ emails'[j].active
                   /\ emails'[j].msg = emails[i].msg
                   /\ maildir_canon_filename(emails'[j].path)
                         = maildir_canon_filename(emails[i].path)]_vars

\* C35: when mh_mbox_check returns -1 the recorded mtime and mtime_cur are
\* what they were before the call.
C35_FailedCheckKeepsMtime ==
    [][(IsStep("check") /\ conf.magic = MUTT_MH /\ last'.rc = -1) =>
          /\ mbox'.mtime = mbox.mtime
          /\ mbox'.mtime_cur = mbox.mtime_cur]_vars

\* an open of an MH folder whose .mh_sequences holds a token that is neither
\* N nor N-M
OpenWithBadToken ==
    /\ IsStep("open")
    /\ conf.magic = MUTT_MH
    /\ mh_read_sequences(seqfile).rc < 0

\* C21: when .mh_sequences holds a token that is neither N nor N-M, the open
\* of the MH folder returns an error and the scanned emails are in the mailbox
\* with default flags.
C21_BadTokenKeepsEmails ==
    [][OpenWithBadToken =>
          /\ last'.rc < 0
          /\ \A f \in DOMAIN files :
                mh_valid_message(f) =>
                   \E i \in 1..Len(emails') :
                      /\ emails'[i].path = f
                      /\ ~emails'[i].flagged /\ ~emails'[i].replied
                      /\ ~emails'[i].read]_vars

\* C23: after a sync that returns 0, the header cache holds no entry for a
\* deleted message whose file the sync has unlinked (a Maildir with
\* maildir_trash off, an MH folder with mh_purge on), whatever the changed bit
\* of the message.
C23_UnlinkedNotCached ==
    [][(/\ IsStep("sync")
        /\ last'.rc = 0
        /\ \/ conf.magic = MUTT_MAILDIR /\ ~conf.MaildirTrash
           \/ conf.magic = MUTT_MH /\ conf.MhPurge)
       => \A i \in 1..Len(emails) :
             (/\ emails[i].deleted
              /\ emails[i].path \in DOMAIN files
              /\ emails[i].path \notin DOMAIN files')
                => HcacheKey(conf.magic, emails[i].path) \notin hcache']_vars

(***************************************************************************)
(* Claims about file names and flags                                       *)
(***************************************************************************)

\* C15: the rename branch of maildir_sync_message keeps the canonical file
\* name (the basename up to its last ':') of the message, whatever the name
\* and the flags are.
C15_RenameKeepsCanonName ==
    (calc.fn = "sync_rename" /\ calc.pc = "done")
       => maildir_canon_filename(calc.e.path) = maildir_canon_filename(calc.path)

\* the name ends in ":2,<flags>"
HasInfoSuffix(path) ==
    LET name == Basename(path)
        c == strrchr(name, ":")
    IN c > 0 /\ HasPrefix(StrFrom(name, c + 1), <<"2", ",">>)

\* C16: a file that a flag sync renames or a commit links into new/ has no
\* ":2," suffix, and one put into cur/ has a ":2,<flags>" suffix, for every
\* combination of read, old, flagged, replied and deleted.
C16_SuffixOnlyInCur ==
    (/\ calc.fn \in {"sync_rename", "commit"}
     /\ calc.pc = "done"
     /\ calc.e.path # calc.path)
       => /\ SubdirOf(calc.e.path) \in {<<"new">>, <<"cur">>}
          /\ SubdirOf(calc.e.path) = <<"new">> => ~HasInfoSuffix(calc.e.path)
          /\ SubdirOf(calc.e.path) = <<"cur">> => HasInfoSuffix(calc.e.path)

\* C17: maildir_parse_flags, on a fresh email, gives back from the suffix of
\* maildir_gen_flags the flagged, replied, read and deleted values that went
\* in and the preserved letters in ASCII order, with flag_safe on or off.
C17_FlagsRoundTrip ==
    (calc.fn = "round_trip" /\ calc.pc = "done")
       => /\ calc.out.flagged = calc.e.flagged
          /\ calc.out.replied = calc.e.replied
          /\ calc.out.read = calc.e.read
          /\ calc.out.deleted = calc.e.deleted
          /\ calc.out.maildir_flags = SortChars(calc.e.maildir_flags, 1)

\* the letter c occurs in the string s
Occurs(c, s) == \E i \in 1..Len(s) : s[i] = c

\* C18: on a name whose part after the last ':' begins with "2,", for every
\* order of the letters: flagged iff F occurs, replied iff R, read iff S,
\* every other letter is kept in maildir_flags, and trash and deleted are set
\* iff T occurs and not (the message is flagged and flag_safe is on).
C18_ParseFlags ==
    (calc.fn = "parse_flags" /\ calc.pc = "done")
       => LET s == StrFrom(calc.suffix, 4)
          IN /\ calc.out.flagged <=> Occurs("F", s)
             /\ calc.out.replied <=> Occurs("R", s)
             /\ calc.out.read <=> Occurs("S", s)
             /\ calc.out.maildir_flags = SelectSeq(s, LAMBDA c : c \notin {"F", "R", "S", "T"})
             /\ calc.out.deleted <=> (Occurs("T", s) /\ ~(calc.out.flagged /\ calc.flagsafe))
             /\ calc.out.trash = calc.out.deleted

\* the bits of message number n according to the emails: those of the email
\* with that number that is not deleted, none when there is no such email
ExpectedBits(hdrs, n) ==
    UNION {(IF ~hdrs[i].read THEN {MH_SEQ_UNSEEN} ELSE {})
               \cup (IF hdrs[i].flagged THEN {MH_SEQ_FLAGGED} ELSE {})
               \cup (IF hdrs[i].replied THEN {MH_SEQ_REPLIED} ELSE {}) :
           i \in {j \in 1..Len(hdrs) : hdrs[j].path = FormatDecimal(n) /\ ~hdrs[j].deleted}}

\* message numbers looked up in the table read back
MaxSeqNo == 12

RECURSIVE RunsText(_)
RunsText(S) ==
    IF S = {} THEN <<>>
    ELSE LET a == CHOOSE x \in S : \A y \in S : x <= y
             b == CHOOSE x \in S : /\ \A k \in a..x : k \in S
                                   /\ x + 1 \notin S
                                   /\ \A y \in S : (\A k \in a..y : k \in S) => y <= x
         IN <<" ">> \o FormatDecimal(a)
                \o (IF b > a THEN <<"-">> \o FormatDecimal(b) ELSE <<>>)
                \o RunsText(S \ (a..b))

\* C20: mhs_write_one_sequence writes the tag and a colon, then the indices
\* that carry the flag in ascending order as maximal runs, each after a single
\* space, a run of one index as N and a longer run as first-last, then a
\* newline; {3,4,5,9,10} gives "unseen: 3-5 9-10" and {7} gives "unseen: 7".
C20_WriteOneSequence ==
    (calc.fn = "write_one" /\ calc.pc = "done") =>
        /\ calc.out = <<calc.tag, ":">> \o RunsText(calc.set) \o <<"\n">>
        /\ (calc.set = {3, 4, 5, 9, 10} /\ calc.f = MH_SEQ_UNSEEN) =>
               calc.out = <<MhSeqUnseen, ":", " ", "3", "-", "5", " ", "9", "-", "1", "0", "\n">>
        /\ (calc.set = {7} /\ calc.f = MH_SEQ_UNSEEN) =>
               calc.out = <<MhSeqUnseen, ":", " ", "7", "\n">>

C20_Witness ==
    /\ calc.fn = "write_one"
    /\ calc.pc = "done"
    /\ calc.f = MH_SEQ_UNSEEN
    /\ calc.set = {3, 4, 5, 9, 10}
    /\ MH_SEQ_REPLIED \in mhs_check(calc.mhs, 4)
    /\ calc.out = <<MhSeqUnseen, ":", " ", "3", "-", "5", " ", "9", "-", "1", "0", "\n">>

\* C22: when a file listed by the scan cannot be opened while its headers are
\* parsed, the entry is skipped and the scan ends with the other messages, in
\* a Maildir and in an MH folder; no entry that has lost its Email is
\* dereferenced (natural sort, sequence flags, hash of the names).
C22_UnreadableEntrySkipped ==
    (calc.fn = "scan" /\ calc.gone # {}) =>
        /\ calc.pc # "killed"
        /\ calc.pc \in {"parsed", "flagged", "hashed", "done"} =>
               \A i \in 1..Len(calc.md) :
                  calc.md[i].has <=> calc.md[i].e.path \notin calc.gone
        /\ calc.pc = "done" =>
               {calc.hdrs[i].path : i \in 1..Len(calc.hdrs)}
                   = {calc.md[i].e.path : i \in 1..Len(calc.md)} \ calc.gone

(***************************************************************************)
(* The compressed mailbox (compress.c, specification SpecComp)             *)
(*                                                                         *)
(* A compressed file is a sequence of blocks, each the compressed form of  *)
(* a plaintext (the messages of an mbox); a file of no block at all is an  *)
(* empty file.  The hooks are the usual ones: open-hook decompresses %f    *)
(* into %t, close-hook compresses %t over %f, append-hook appends the      *)
(* compressed %t to %f.                                                    *)
(***************************************************************************)

\* a size that fits an int, and the size of a file of 2^31 bytes and more:
\* giga counts the multiples of 2^31
SmallSize(n) == [giga |-> 0, byte |-> n]

\* the compressed form of a plaintext, and the plaintext of a compressed file
Compress(text) == [z |-> text]

RECURSIVE Decompress(_)
Decompress(blocks) ==
    IF blocks = <<>> THEN <<>> ELSE Head(blocks).z \o Decompress(Tail(blocks))

\* bytes of a compressed file: a header and the messages, for every block
RECURSIVE BlockBytes(_)
BlockBytes(blocks) ==
    IF blocks = <<>> THEN 0 ELSE 1 + Len(Head(blocks).z) + BlockBytes(Tail(blocks))

NoCompFile == [exists |-> FALSE, blocks |-> <<>>, giga |-> 0]
CompFile(blocks, giga) == [exists |-> TRUE, blocks |-> blocks, giga |-> giga]

NoPlain == [exists |-> FALSE, text |-> <<>>]
Plain(text) == [exists |-> TRUE, text |-> text]

\* mutt_file_get_size: the size of the file as a long, 0 when stat fails
mutt_file_get_size(f) ==
    IF f.exists THEN [giga |-> f.giga, byte |-> BlockBytes(f.blocks)] ELSE SmallSize(0)

\* the value of 'int size = mutt_file_get_size(...)' compared with the long
\* ci->size: the conversion to int keeps the low 32 bits, so the two are
\* equal only when the size fits an int
IntSizeEquals(size, stored) == size.giga = 0 /\ stored = size

NoCompressInfo ==
    [set |-> FALSE, close |-> FALSE, append |-> FALSE, size |-> SmallSize(0),
     child_ops |-> FALSE, locked |-> FALSE, lockfp |-> FALSE, excl |-> FALSE]

\* one more event of the running operation
Did(w, ev) == [w EXCEPT !.trace = Append(@, ev)]

\* whether the fault of this operation strikes the n-th command it runs
CmdFails(w, fault) ==
    \/ fault = "cmd1" /\ w.ncmd = 0
    \/ fault = "cmd2" /\ w.ncmd = 1

\* lock_realpath marking the mailbox readonly when it is the shared lock
\* that is not granted
LockSharedReadonly(w, excl, fault) ==
    IF ~w.ci.set THEN [ok |-> FALSE, w |-> w]
    ELSE IF w.ci.locked THEN [ok |-> TRUE, w |-> w]
    ELSE IF fault = "fopen" \/ (~excl /\ ~w.real.exists)
         THEN [ok |-> FALSE, w |-> w]
    ELSE LET opened == [w EXCEPT !.ci.lockfp = TRUE,
                                 !.real = IF @.exists THEN @ ELSE CompFile(<<>>, 0)]
         IN IF fault # "lock"
            THEN [ok |-> TRUE,
                  w |-> Did([opened EXCEPT !.ci.locked = TRUE, !.ci.excl = excl],
                            IF excl THEN "lock_excl" ELSE "lock_shared")]
            ELSE IF ~excl
                 THEN [ok |-> TRUE,
                       w |-> [opened EXCEPT !.ci.lockfp = FALSE, !.readonly = TRUE]]
                 ELSE [ok |-> FALSE, w |-> opened]

\* lock_realpath: [ok, w]
lock_realpath(w, excl, fault) ==
    IF ~w.ci.set THEN [ok |-> FALSE, w |-> w]
    ELSE IF w.ci.locked THEN [ok |-> TRUE, w |-> w]
    ELSE IF fault = "fopen" \/ (~excl /\ ~w.real.exists)
         THEN [ok |-> FALSE, w |-> w]
    ELSE LET opened == [w EXCEPT !.ci.lockfp = TRUE,
                                 !.real = IF @.exists THEN @ ELSE CompFile(<<>>, 0)]
         IN IF fault # "lock"
            THEN [ok |-> TRUE,
                  w |-> Did([opened EXCEPT !.ci.locked = TRUE, !.ci.excl = excl],
                            IF excl THEN "lock_excl" ELSE "lock_shared")]
            ELSE IF excl
                 THEN [ok |-> TRUE,
                       w |-> [opened EXCEPT !.ci.lockfp = FALSE, !.readonly = TRUE]]
                 ELSE [ok |-> FALSE, w |-> opened]

\* unlock_realpath
unlock_realpath(w) ==
    IF ~w.ci.set \/ ~w.ci.locked THEN w
    ELSE Did([w EXCEPT !.ci.locked = FALSE, !.ci.lockfp = FALSE, !.ci.excl = FALSE],
             "unlock")

\* store_size
store_size(w) ==
    IF ~w.ci.set THEN w
    ELSE Did([w EXCEPT !.ci.size = mutt_file_get_size(w.real)], "store_size")

\* setup_paths: a fresh, empty plaintext file
setup_paths(w, fault) ==
    IF fault = "paths" THEN [rc |-> -1, w |-> w]
    ELSE [rc |-> 0, w |-> [w EXCEPT !.plain = Plain(<<>>)]]

\* free_compress_info
free_compress_info(w) ==
    IF ~w.ci.set THEN w
    ELSE [unlock_realpath(w) EXCEPT !.ci = NoCompressInfo]

\* what the shell command of a hook does to the two files; the shell creates
\* or truncates the target of '>' before the program runs
RunHook(w, cmd) ==
    CASE cmd = "open" ->
            [w EXCEPT !.plain = Plain(Decompress(w.real.blocks))]
      [] cmd = "close" ->
            [w EXCEPT !.real = CompFile(<<Compress(w.plain.text)>>, 0)]
      [] cmd = "append" ->
            [w EXCEPT !.real = CompFile(w.real.blocks \o <<Compress(w.plain.text)>>,
                                        w.real.giga)]

\* whether the program of the hook finds its input
HookInput(w, cmd) == IF cmd = "open" THEN w.real.exists ELSE w.plain.exists

\* execute_command: [rc, w], rc = 1 when the command has run and exited with
\* 0, rc = 0 when it failed or when there is no command
execute_command(w, cmd, fault) ==
    IF cmd = "none" THEN [rc |-> 0, w |-> w]
    ELSE LET ran == Did([w EXCEPT !.ncmd = @ + 1], cmd)
         IN IF CmdFails(w, fault) \/ ~HookInput(w, cmd)
            THEN [rc |-> 0, w |-> Did(ran, "failed")]
            ELSE [rc |-> 1, w |-> RunHook(ran, cmd)]

\* the start of an operation of the wrapper
Enter(w) == [w EXCEPT !.trace = <<>>, !.ncmd = 0]

\* set_compress_info: the hooks that match the path; an open-hook is there
set_compress_info(w) ==
    IF w.ci.set THEN w
    ELSE [w EXCEPT !.ci = [NoCompressInfo EXCEPT !.set = TRUE, !.close = w.hooks.close,
                                                 !.append = w.hooks.append]]

\* the mbox engine the wrapper delegates to: it reads the plaintext into the
\* mailbox, reports a plaintext that differs from what it last read or wrote,
\* and writes the mailbox back
ChildOpen(w) == [w EXCEPT !.box = w.plain.text, !.seen = w.plain.text]

ChildCheck(w) ==
    IF w.plain.text = w.seen THEN [rc |-> 0, w |-> w]
    ELSE [rc |-> 1, w |-> Did(ChildOpen(w), "child_check")]

ChildSync(w) ==
    Did([w EXCEPT !.plain = Plain(w.box), !.seen = w.box], "child_sync")

\* comp_mbox_open: [rc, w]
comp_mbox_open(w0, fault) ==
    LET cmo_fail(w) == [rc |-> -1, w |-> free_compress_info([w EXCEPT !.plain = NoPlain])]
        Delegate(w) ==
            IF fault = "child" THEN [rc |-> -1, w |-> [w EXCEPT !.ci.child_ops = TRUE]]
            ELSE [rc |-> 0, w |-> ChildOpen([w EXCEPT !.ci.child_ops = TRUE, !.open = TRUE])]
        Ran(x) == IF x.rc = 0 THEN cmo_fail(x.w) ELSE Delegate(unlock_realpath(x.w))
        Locked(l) ==
            IF ~l.ok THEN cmo_fail(l.w) ELSE Ran(execute_command(l.w, "open", fault))
        Paths(p) ==
            IF p.rc # 0 THEN cmo_fail(p.w)
            ELSE Locked(lock_realpath(store_size(p.w), FALSE, fault))
        Info(w) ==
            Paths(setup_paths([w EXCEPT !.readonly = @ \/ ~w.ci.close \/ ~w.writable],
                              fault))
    IN Info(set_compress_info(Enter(w0)))

\* comp_mbox_open_append: [rc, w]
comp_mbox_open_append(w0, fault) ==
    LET cmoa_fail1(w) == [rc |-> -1, w |-> free_compress_info(w)]
        cmoa_fail2(w) == cmoa_fail1([w EXCEPT !.plain = NoPlain])
        Delegate(w) ==
            IF fault = "child" THEN cmoa_fail2([w EXCEPT !.ci.child_ops = TRUE])
            ELSE [rc |-> 0,
                  w |-> [w EXCEPT !.ci.child_ops = TRUE, !.open = TRUE, !.append = TRUE,
                                  !.box = <<>>, !.seen = w.plain.text]]
        Ran(x) == IF x.rc = 0 THEN cmoa_fail2(x.w) ELSE Delegate(x.w)
        Locked(l) ==
            IF ~l.ok THEN cmoa_fail2(l.w)
            ELSE IF ~l.w.ci.append /\ mutt_file_get_size(l.w.real) # SmallSize(0)
                 THEN Ran(execute_command(l.w, "open", fault))
                 ELSE Delegate(l.w)
        Paths(p) ==
            IF p.rc # 0 THEN cmoa_fail2(p.w) ELSE Locked(lock_realpath(p.w, TRUE, fault))
        Info(w) ==
            IF ~w.ci.append /\ ~w.ci.close THEN cmoa_fail1(w)
            ELSE Paths(setup_paths(w, fault))
    IN Info(set_compress_info(Enter(w0)))

\* comp_mbox_check: [rc, w]
comp_mbox_check(w, fault) ==
    LET Child(x) == IF fault = "child" THEN [rc |-> -1, w |-> x] ELSE ChildCheck(x)
        Ran(x) ==
            LET u == unlock_realpath(store_size(x.w))
            IN IF x.rc = 0 THEN [rc |-> -1, w |-> u] ELSE Child(u)
        Locked(l) ==
            IF ~l.ok THEN [rc |-> -1, w |-> l.w]
            ELSE Ran(execute_command(l.w, "open", fault))
    IN IF ~w.ci.set \/ ~w.ci.child_ops THEN [rc |-> -1, w |-> w]
       ELSE IF IntSizeEquals(mutt_file_get_size(w.real), w.ci.size)
            THEN [rc |-> 0, w |-> w]
            ELSE Locked(lock_realpath(w, FALSE, fault))

\* comp_mbox_sync: [rc, w]
comp_mbox_sync(w0, fault) ==
    LET sync_cleanup(rc, w) == [rc |-> rc, w |-> unlock_realpath(store_size(w))]
        Closed(x) == sync_cleanup(IF x.rc = 0 THEN -1 ELSE 0, x.w)
        Synced(w) ==
            IF fault = "child" THEN sync_cleanup(-1, w)
            ELSE Closed(execute_command(ChildSync(w), "close", fault))
        Checked(c) == IF c.rc # 0 THEN sync_cleanup(c.rc, c.w) ELSE Synced(c.w)
        Locked(l) ==
            IF ~l.ok THEN [rc |-> -1, w |-> l.w]
            ELSE Checked(comp_mbox_check(l.w, IF fault = "child" THEN "none" ELSE fault))
        Go(w) ==
            IF ~w.ci.set \/ ~w.ci.close \/ ~w.ci.child_ops THEN [rc |-> -1, w |-> w]
            ELSE Locked(lock_realpath(w, TRUE, fault))
    IN Go(Enter(w0))

\* comp_mbox_close removing the plaintext of an append whatever the command
\* returned
CloseRemovesPlaintext(w0, fault) ==
    LET Freed(w) == [rc |-> 0, w |-> free_compress_info([w EXCEPT !.open = FALSE])]
        Ran(x) == Freed(unlock_realpath([x.w EXCEPT !.plain = NoPlain]))
        Go(w) ==
            IF ~w.ci.set THEN [rc |-> -1, w |-> w]
            ELSE IF ~w.ci.child_ops THEN [rc |-> -1, w |-> free_compress_info(w)]
            ELSE IF ~w.append
                 THEN IF ~w.plain.exists /\ ~w.SaveEmpty
                      THEN Freed([w EXCEPT !.real = NoCompFile])
                      ELSE Freed([w EXCEPT !.plain = NoPlain])
                 ELSE Ran(execute_command(w,
                                          IF w.real.exists /\ w.ci.append THEN "append"
                                          ELSE IF w.ci.close THEN "close" ELSE "none",
                                          fault))
    IN Go(Enter(w0))

\* comp_mbox_close removing the compressed file of a mailbox whose plaintext
\* is gone without looking at save_empty
CloseIgnoresSaveEmpty(w0, fault) ==
    LET Freed(w) == [rc |-> 0, w |-> free_compress_info([w EXCEPT !.open = FALSE])]
        Ran(x) ==
            Freed(unlock_realpath(IF x.rc = 0 THEN Did(x.w, "preserved")
                                  ELSE [x.w EXCEPT !.plain = NoPlain]))
        Go(w) ==
            IF ~w.ci.set THEN [rc |-> -1, w |-> w]
            ELSE IF ~w.ci.child_ops THEN [rc |-> -1, w |-> free_compress_info(w)]
            ELSE IF ~w.append
                 THEN IF ~w.plain.exists
                      THEN Freed([w EXCEPT !.real = NoCompFile])
                      ELSE Freed([w EXCEPT !.plain = NoPlain])
                 ELSE Ran(execute_command(w,
                                          IF w.real.exists /\ w.ci.append THEN "append"
                                          ELSE IF w.ci.close THEN "close" ELSE "none",
                                          fault))
    IN Go(Enter(w0))

\* comp_mbox_close: [rc, w]
comp_mbox_close(w0, fault) ==
    LET Freed(w) == [rc |-> 0, w |-> free_compress_info([w EXCEPT !.open = FALSE])]
        Ran(x) ==
            Freed(unlock_realpath(IF x.rc = 0 THEN Did(x.w, "preserved")
                                  ELSE [x.w EXCEPT !.plain = NoPlain]))
        Go(w) ==
            IF ~w.ci.set THEN [rc |-> -1, w |-> w]
            ELSE IF ~w.ci.child_ops THEN [rc |-> -1, w |-> free_compress_info(w)]
            ELSE IF ~w.append
                 THEN IF ~w.plain.exists /\ ~w.SaveEmpty
                      THEN Freed([w EXCEPT !.real = NoCompFile])
                      ELSE Freed([w EXCEPT !.plain = NoPlain])
                 ELSE Ran(execute_command(w,
                                          IF w.real.exists /\ w.ci.append THEN "append"
                                          ELSE IF w.ci.close THEN "close" ELSE "none",
                                          fault))
    IN Go(Enter(w0))

MaxCompOps == 4

\* the compressed file when the mailbox is first used: missing, empty, one
\* block of one message, and a file of 2^31 bytes and more
CompFilePool ==
    {NoCompFile, CompFile(<<>>, 0), CompFile(<<Compress(<<"m1">>)>>, 0),
     CompFile(<<Compress(<<"m1">>)>>, 1)}

\* what can go wrong in one operation: the temporary file cannot be created,
\* fopen of the compressed file fails, the lock is not granted, the first or
\* the second command exits with an error, the mbox engine fails
CompFaults == {"none", "paths", "fopen", "lock", "cmd1", "cmd2", "child"}

InitComp ==
    /\ \E r \in CompFilePool, c \in BOOLEAN, a \in BOOLEAN, se \in BOOLEAN :
          comp = [real |-> r, plain |-> NoPlain, hooks |-> [close |-> c, append |-> a],
                  SaveEmpty |-> se, writable |-> TRUE, readonly |-> FALSE,
                  append |-> FALSE, open |-> FALSE, ci |-> NoCompressInfo,
                  box |-> <<>>, seen |-> <<>>, ncmd |-> 0, trace |-> <<>>,
                  op |-> "none", rc |-> 0, fault |-> "none", nops |-> 0,
                  before |-> [real |-> r, plain |-> NoPlain, append |-> FALSE,
                              ci |-> NoCompressInfo, readonly |-> FALSE]]
    /\ files = EmptyDir
    /\ seqfile = NoFile
    /\ IdleSeq
    /\ IdleCalc
    /\ IdleCommit
    /\ IdleRewrite
    /\ IdleBox
    /\ IdleNotify
    /\ IdleDelivery

\* the operation op has run on the mailbox and returned r.rc; before keeps
\* what the operation found
CompReturned(op, fault, r) ==
    /\ comp.nops < MaxCompOps
    /\ comp' = [r.w EXCEPT !.op = op, !.rc = r.rc, !.fault = fault, !.nops = @ + 1,
                           !.before = [real |-> comp.real, plain |-> comp.plain,
                                       append |-> comp.append, ci |-> comp.ci,
                                       readonly |-> comp.readonly]]
    /\ UNCHANGED compOthers

CompOpen ==
    /\ ~comp.open
    /\ ~comp.ci.set
    /\ \E fault \in CompFaults \ {"cmd2"} :
          CompReturned("open", fault, comp_mbox_open([comp EXCEPT !.append = FALSE], fault))

CompOpenAppend ==
    /\ ~comp.open
    /\ ~comp.ci.set
    /\ \E fault \in CompFaults \ {"cmd2"} :
          CompReturned("open_append", fault, comp_mbox_open_append(comp, fault))

CompCheck ==
    /\ comp.open
    /\ ~comp.append
    /\ \E fault \in CompFaults \ {"paths", "cmd2"} :
          CompReturned("check", fault, comp_mbox_check(Enter(comp), fault))

CompSync ==
    /\ comp.open
    /\ ~comp.append
    /\ ~comp.readonly
    /\ \E fault \in CompFaults \ {"paths"} :
          CompReturned("sync", fault, comp_mbox_sync(comp, fault))

CompClose ==
    /\ comp.open
    /\ \E fault \in {"none", "cmd1"} :
          CompReturned("close", fault, comp_mbox_close(comp, fault))

\* the user deletes the messages of the open mailbox, or a message is
\* appended to a mailbox opened for appending
CompUser ==
    /\ comp.open
    /\ comp.nops < MaxCompOps
    /\ \/ (~comp.append /\ comp.box # <<>>
           /\ comp' = [comp EXCEPT !.box = <<>>, !.op = "user", !.nops = @ + 1])
       \/ (comp.append /\ Len(comp.plain.text) < 2 /\ comp.plain.exists
           /\ comp' = [comp EXCEPT !.plain.text = Append(@, "m2"), !.op = "user",
                                   !.nops = @ + 1])
    /\ UNCHANGED compOthers

\* mx_mbox_close removes the plaintext of an mbox left without messages when
\* save_empty is off, before it closes the mailbox
CompUnlinkEmpty ==
    /\ comp.open
    /\ ~comp.append
    /\ ~comp.SaveEmpty
    /\ comp.plain.exists /\ comp.plain.text = <<>>
    /\ comp.nops < MaxCompOps
    /\ comp' = [comp EXCEPT !.plain = NoPlain, !.op = "unlink_empty", !.nops = @ + 1]
    /\ UNCHANGED compOthers

\* the plaintext, a temporary file, is removed by another program while the
\* mailbox is open
CompTmpRemoved ==
    /\ comp.open
    /\ comp.plain.exists
    /\ comp.nops < MaxCompOps
    /\ comp' = [comp EXCEPT !.plain = NoPlain, !.op = "tmp_removed", !.nops = @ + 1]
    /\ UNCHANGED compOthers

\* another program that takes the lock itself appends a block to the
\* compressed file: one message, or no message at all
CompExtAppend ==
    /\ comp.real.exists
    /\ ~comp.ci.locked
    /\ Len(comp.real.blocks) < 2
    /\ comp.nops < MaxCompOps
    /\ \E text \in {<<>>, <<"m3">>} :
          comp' = [comp EXCEPT !.real.blocks = Append(@, Compress(text)),
                               !.op = "ext", !.nops = @ + 1]
    /\ UNCHANGED compOthers

NextComp ==
    \/ CompOpen
    \/ CompOpenAppend
    \/ CompCheck
    \/ CompSync
    \/ CompClose
    \/ CompUser
    \/ CompUnlinkEmpty
    \/ CompTmpRemoved
    \/ CompExtAppend

(***************************************************************************)
(* Claims about the compressed mailbox                                     *)
(***************************************************************************)

\* the events of the last operation that are of kind evs, as positions
Events(evs) == {i \in 1..Len(comp.trace) : comp.trace[i] \in evs}

\* C24: in comp_mbox_sync the exclusive lock taken at the start is held until
\* the close command has run and the stored size has been refreshed, on every
\* path, also when the nested check finds the size of the compressed file
\* changed and runs the open command again.
C24_SyncHoldsLock ==
    (comp.op = "sync" /\ Events({"lock_excl"}) # {}) =>
        \A i \in Events({"unlock"}) :
           \A j \in Events({"open", "child_check", "child_sync", "close", "store_size"}) :
              j < i

C26_FailedCommandKeepsPlaintext ==
    (/\ \/ comp.op \in {"open", "open_append"}
        \/ comp.op \in {"check", "sync", "close"} /\ comp.before.plain.exists
     /\ Events({"failed"}) # {}) =>
        /\ comp.rc < 0
        /\ comp.plain.exists

\* C27: comp_mbox_check returns 0 without locking, running a command or
\* calling the check of the mbox engine when the size of the compressed file
\* equals the stored size; otherwise it locks, runs the open command again,
\* refreshes the stored size, unlocks and returns what the check of the mbox
\* engine returns (-1 when the command failed).  After a check that has
\* refreshed the size, a check that finds the size unchanged returns 0.
C27_CheckBySize ==
    (comp.op = "check" /\ comp.fault \in {"none", "cmd1"}) =>
        /\ mutt_file_get_size(comp.before.real) = comp.before.ci.size =>
              /\ comp.rc = 0
              /\ comp.trace = <<>>
              /\ comp.plain = comp.before.plain
              /\ comp.ci = comp.before.ci
        /\ (mutt_file_get_size(comp.before.real) # comp.before.ci.size
            /\ comp.before.real.exists) =>
              /\ SubSeq(comp.trace, 1, 2) = <<"lock_shared", "open">>
              /\ Events({"store_size"}) # {}
              /\ comp.ci.size = mutt_file_get_size(comp.real)
              /\ ~comp.ci.locked
              /\ comp.fault = "cmd1" => comp.rc = -1
              /\ comp.fault = "none" =>
                    /\ comp.plain = Plain(Decompress(comp.real.blocks))
                    /\ comp.rc = IF Events({"child_check"}) # {} THEN 1 ELSE 0
                    /\ comp.seen = comp.plain.text
        /\ Events({"store_size"}) # {} =>
              LET Again(r) == r.rc = 0 /\ r.w.trace = <<>>
              IN Again(comp_mbox_check(Enter(comp), "none"))

\* a close of a mailbox that was open with its CompressInfo and its engine
ClosedMailbox(append) ==
    /\ comp.op = "close"
    /\ comp.before.ci.set /\ comp.before.ci.child_ops
    /\ comp.before.append = append

IsPrefix(s, t) == Len(s) <= Len(t) /\ SubSeq(t, 1, Len(s)) = s

\* C30: comp_mbox_open_append decompresses the compressed file into the
\* plaintext exactly when there is no append-hook and the compressed file is
\* not empty; and whenever the close of an append writes the whole plaintext
\* over an existing compressed file with the close-hook, the plaintext begins
\* with the content the compressed file had, so nothing of it is lost.
C30_AppendKeepsContent ==
    /\ (comp.op = "open_append" /\ comp.rc = 0) =>
          (Events({"open"}) # {} <=>
              (~comp.hooks.append /\ mutt_file_get_size(comp.before.real) # SmallSize(0)))
    /\ (ClosedMailbox(TRUE) /\ comp.before.real.exists /\ Events({"close"}) # {}
        /\ Events({"failed"}) = {}) =>
          IsPrefix(Decompress(comp.before.real.blocks), Decompress(comp.real.blocks))

\* C31: after a successful comp_mbox_open_append the exclusive lock on the
\* compressed file is held in every state until comp_mbox_close; after
\* comp_mbox_close has returned, and after a failed open or append-open has
\* returned, no lock is held.
C31_AppendLockHeld ==
    /\ (comp.open /\ comp.append) => (comp.ci.locked /\ comp.ci.excl)
    /\ comp.op = "close" => ~comp.ci.locked
    /\ (comp.op \in {"open", "open_append"} /\ comp.rc < 0) => ~comp.ci.locked

\* C37: comp_mbox_sync and comp_mbox_close run the close or the append command
\* only while the exclusive lock is held; and when the exclusive lock was not
\* granted and the mailbox was made readonly, the operation does not write the
\* compressed file.
C37_WriteUnderLock ==
    comp.op \in {"sync", "close"} =>
        /\ \A j \in Events({"close", "append"}) :
              \/ comp.before.ci.locked /\ comp.before.ci.excl
                 /\ \A i \in Events({"unlock"}) : j < i
              \/ \E k \in Events({"lock_excl"}) :
                    /\ k < j
                    /\ \A i \in Events({"unlock"}) : i < k \/ j < i
        /\ (comp.readonly /\ ~comp.before.readonly) => comp.real = comp.before.real

\* C40: between the operations of the wrapper the lock handle of a compressed
\* mailbox is open exactly when the lock is held.
C40_LockfpIffLocked ==
    comp.ci.set => (comp.ci.lockfp <=> comp.ci.locked)

\* C32: in the loop of maildir_mbox_check, for an email matched to a scanned
\* file: trash becomes the trash bit of the scanned file; deleted becomes the
\* deleted bit of the scanned file when deleted = trash held before, and
\* keeps its value when deleted differed from trash.
C32_MergeDeletedTrash ==
    (calc.fn = "merge" /\ calc.pc = "done") =>
        /\ calc.out.active
        /\ calc.out.trash = calc.p.trash
        /\ calc.out.deleted = IF calc.h.deleted = calc.h.trash THEN calc.p.deleted
                              ELSE calc.h.deleted
        /\ calc.p.deleted = (/\ \E k \in 1..Len(calc.name) : calc.name[k] = "T"
                             /\ ~(calc.flagsafe /\ calc.p.flagged))

C32_Witness ==
    /\ calc.fn = "merge" /\ calc.pc = "done"
    /\ calc.h.deleted /\ calc.h.trash
    /\ ~calc.p.deleted
    /\ ~calc.out.deleted /\ ~calc.out.trash

\* C33: maildir_msg_open_new names the temp file tmp/cur.<unique> when the
\* email is read or old and tmp/new.<unique> otherwise; the name carries no T,
\* whatever the deleted bit of the email, and the deleted bit is after the
\* call what it was before; the commit moves the file into the subdirectory
\* the prefix names.
C33_OpenNewTempName ==
    (calc.fn = "commit" /\ calc.pc = "done") =>
        /\ SubSeq(calc.tmp, 1, 2) = <<"tmp", "/">>
        /\ calc.tmp[3] = IF calc.e0.read \/ calc.e0.old THEN "cur" ELSE "new"
        /\ calc.tmp[4] = "."
        /\ \A k \in 1..Len(calc.tmp) : calc.tmp[k] # "T"
        /\ calc.e.deleted = calc.e0.deleted
        /\ SubdirOf(calc.e.path) = <<calc.tmp[3]>>
        /\ StrFrom(calc.e.path, 4) = StrFrom(calc.tmp, 6)

C33_Witness ==
    /\ calc.fn = "commit" /\ calc.pc = "done"
    /\ calc.e0.deleted /\ calc.e0.read /\ calc.e0.flagged
    /\ calc.tmp[3] = "cur"
    /\ calc.e.deleted

\* the step in which md_commit_message returns -1 to mh_rewrite_message
CommitFailed ==
    /\ rw.pc = "copied"
    /\ rw.magic = MUTT_MAILDIR
    /\ rw'.pc = "done"
    /\ rw'.rc = -1

\* C39: when md_commit_message returns -1, no file has been added to new/ or
\* cur/ and the temp file is still in tmp/; the rewrite that reports this
\* failure leaves exactly one copy of the message, the old file.
C39_FailedCommitAddsNothing ==
    [][CommitFailed =>
          /\ {f \in DOMAIN files' : IsMessageFile(MUTT_MAILDIR, f)}
                = {f \in DOMAIN files : IsMessageFile(MUTT_MAILDIR, f)}
          /\ rw.tmp \in DOMAIN files'
          /\ C1_Copies' = {rw.oldpath}]_vars

(***************************************************************************)
(* The mailboxes watched for new mail (mailbox.c)                          *)
(***************************************************************************)

\* the paths the mailboxes command may name
NotifyPaths == {"a", "b"}

\* the announcements of one mailbox that are counted
MaxAnnounced == 2

\* what the disk holds at a path: whether stat finds a mailbox there and
\* whether the poll of its format finds new mail in it
DiskStates == [exists : BOOLEAN, newmail : BOOLEAN]

\* a Mailbox as mutt_parse_mailboxes makes it; ann counts the announcements
\* by mutt_mailbox_notify since has_new was last false
NewMailbox(path) ==
    [path |-> path, has_new |-> FALSE, notified |-> TRUE, ann |-> 0]

\* a check that forgets that the user was told of the mailbox
CheckClearsNotified(m, disk, ctx, st) ==
    LET cleared == [m EXCEPT !.has_new = FALSE]
    IN  IF ~disk[m.path].exists
        THEN [m |-> cleared, MailboxCount |-> st.MailboxCount,
              MailboxNotify |-> st.MailboxNotify]
        ELSE LET polled == ctx # m.path
                 found == polled /\ disk[m.path].newmail
                 m2 == [cleared EXCEPT !.has_new = found, !.notified = FALSE]
             IN  [m |-> m2,
                  MailboxCount |-> IF found THEN st.MailboxCount + 1
                                   ELSE st.MailboxCount,
                  MailboxNotify |-> IF m2.has_new THEN st.MailboxNotify + 1
                                    ELSE st.MailboxNotify]

\* one call of mailbox_check on m: st holds MailboxCount and MailboxNotify
mailbox_check(m, disk, ctx, st) ==
    LET cleared == [m EXCEPT !.has_new = FALSE]
    IN  IF ~disk[m.path].exists
        THEN [m |-> cleared, MailboxCount |-> st.MailboxCount,
              MailboxNotify |-> st.MailboxNotify]
        ELSE LET polled == ctx # m.path
                 found == polled /\ disk[m.path].newmail
                 m2 == [cleared EXCEPT !.has_new = found]
             IN  [m |-> IF ~m2.has_new THEN [m2 EXCEPT !.notified = FALSE] ELSE m2,
                  MailboxCount |-> IF found THEN st.MailboxCount + 1
                                   ELSE st.MailboxCount,
                  MailboxNotify |-> IF m2.has_new /\ ~m2.notified
                                    THEN st.MailboxNotify + 1
                                    ELSE st.MailboxNotify]

\* the loop of mutt_mailbox_check over AllMailboxes from its i-th entry
RECURSIVE CheckEach(_, _, _, _, _)
CheckEach(all, i, disk, ctx, st) ==
    IF i > Len(all) THEN [all |-> all, MailboxCount |-> st.MailboxCount,
                          MailboxNotify |-> st.MailboxNotify]
    ELSE LET r == mailbox_check(all[i], disk, ctx, st)
         IN  CheckEach([all EXCEPT ![i] = r.m], i + 1, disk, ctx,
                       [MailboxCount |-> r.MailboxCount,
                        MailboxNotify |-> r.MailboxNotify])

\* mutt_mailbox_check: due says that MailCheck seconds have passed since
\* MailboxTime
mutt_mailbox_check(w, force, due) ==
    IF w.AllMailboxes = <<>> THEN [w |-> w, rc |-> 0]
    ELSE IF ~force /\ ~due THEN [w |-> w, rc |-> w.MailboxCount]
    ELSE LET r == CheckEach(w.AllMailboxes, 1, w.disk, w.Context,
                            [MailboxCount |-> 0, MailboxNotify |-> 0])
         IN  [w |-> [w EXCEPT !.AllMailboxes = r.all,
                              !.MailboxCount = r.MailboxCount,
                              !.MailboxNotify = r.MailboxNotify],
              rc |-> r.MailboxCount]

\* the loop of mutt_mailbox_list from the i-th entry: shown are the paths
\* already in the message, room is the number of paths the window has room for
RECURSIVE ListEach(_, _, _, _, _, _)
ListEach(all, i, have_unnotified, room, shown, ntf) ==
    IF i > Len(all) THEN [all |-> all, shown |-> shown, MailboxNotify |-> ntf]
    ELSE IF ~all[i].has_new \/ (have_unnotified # 0 /\ all[i].notified)
    THEN ListEach(all, i + 1, have_unnotified, room, shown, ntf)
    ELSE IF shown # <<>> /\ Len(shown) >= room
    THEN [all |-> all, shown |-> shown, MailboxNotify |-> ntf]
    ELSE ListEach([all EXCEPT ![i].notified = TRUE], i + 1, have_unnotified, room,
                  Append(shown, all[i].path),
                  IF all[i].notified THEN ntf ELSE ntf - 1)

\* mutt_mailbox_list
mutt_mailbox_list(w, room) ==
    LET r == ListEach(w.AllMailboxes, 1, w.MailboxNotify, room, <<>>,
                      w.MailboxNotify)
    IN  IF r.shown # <<>>
        THEN [w |-> [w EXCEPT !.AllMailboxes = r.all,
                              !.MailboxNotify = r.MailboxNotify],
              shown |-> r.shown, rc |-> TRUE]
        ELSE [w |-> [w EXCEPT !.MailboxNotify = 0], shown |-> <<>>, rc |-> FALSE]

\* mutt_mailbox_notify
mutt_mailbox_notify(w, due, room) ==
    LET c == mutt_mailbox_check(w, FALSE, due)
    IN  IF c.rc # 0 /\ c.w.MailboxNotify # 0
        THEN mutt_mailbox_list(c.w, room)
        ELSE [w |-> c.w, shown |-> <<>>, rc |-> FALSE]

\* mutt_mailbox_setnotified
mutt_mailbox_setnotified(w, path) ==
    [w EXCEPT !.AllMailboxes =
        [i \in 1..Len(@) |-> IF @[i].path = path THEN [@[i] EXCEPT !.notified = TRUE]
                             ELSE @[i]]]

\* mutt_parse_mailboxes with one path
mutt_parse_mailboxes(w, path) ==
    IF \E i \in 1..Len(w.AllMailboxes) : w.AllMailboxes[i].path = path THEN w
    ELSE [w EXCEPT !.AllMailboxes = Append(@, NewMailbox(path))]

\* mutt_parse_unmailboxes with one path or with "*"
mutt_parse_unmailboxes(w, arg) ==
    [w EXCEPT !.AllMailboxes = SelectSeq(@, LAMBDA m : arg # "*" /\ m.path # arg)]

\* the announcements counted after an operation that announced the paths in
\* said: a mailbox without new mail starts a new period
Counted(all, said) ==
    [i \in 1..Len(all) |->
        IF ~all[i].has_new THEN [all[i] EXCEPT !.ann = 0]
        ELSE IF \E k \in 1..Len(said) : said[k] = all[i].path
        THEN [all[i] EXCEPT !.ann = IF @ < MaxAnnounced THEN @ + 1 ELSE @]
        ELSE all[i]]

InitNotify ==
    /\ \E d \in [NotifyPaths -> DiskStates] :
          nt = [AllMailboxes |-> <<>>, MailboxCount |-> 0, MailboxNotify |-> 0,
                Context |-> "none", disk |-> d, op |-> "none", said |-> <<>>,
                shown |-> <<>>]
    /\ files = EmptyDir
    /\ seqfile = NoFile
    /\ IdleSeq
    /\ IdleCalc
    /\ IdleCommit
    /\ IdleRewrite
    /\ IdleBox
    /\ IdleComp
    /\ IdleDelivery

\* the operation op has run: said are the paths mutt_mailbox_notify
\* announced, shown the paths a list showed
NotifyReturned(op, w, said, shown) ==
    /\ nt' = [w EXCEPT !.AllMailboxes = Counted(@, said), !.op = op,
                       !.said = said, !.shown = shown]
    /\ UNCHANGED ntOthers

NtCheck ==
    \E force \in BOOLEAN, due \in BOOLEAN :
       NotifyReturned("check", mutt_mailbox_check(nt, force, due).w, <<>>, <<>>)

NtNotify ==
    \E due \in BOOLEAN, room \in 1..Cardinality(NotifyPaths) :
       LET r == mutt_mailbox_notify(nt, due, room)
       IN  NotifyReturned("notify", r.w, r.shown, r.shown)

NtList ==
    \E room \in 1..Cardinality(NotifyPaths) :
       LET r == mutt_mailbox_list(nt, room)
       IN  NotifyReturned("list", r.w, <<>>, r.shown)

NtSetNotified ==
    \E path \in NotifyPaths :
       NotifyReturned("setnotified", mutt_mailbox_setnotified(nt, path), <<>>, <<>>)

NtMailboxes ==
    \E path \in NotifyPaths :
       NotifyReturned("mailboxes", mutt_parse_mailboxes(nt, path), <<>>, <<>>)

NtUnmailboxes ==
    \E arg \in NotifyPaths \cup {"*"} :
       NotifyReturned("unmailboxes", mutt_parse_unmailboxes(nt, arg), <<>>, <<>>)

\* the user enters or leaves a folder
NtSelect ==
    \E c \in NotifyPaths \cup {"none"} :
       /\ c # nt.Context
       /\ nt' = [nt EXCEPT !.Context = c, !.op = "select", !.said = <<>>,
                           !.shown = <<>>]
       /\ UNCHANGED ntOthers

\* mail arrives or is read by another program, a mailbox is made or removed
NtDisk ==
    \E path \in NotifyPaths, d \in DiskStates :
       /\ d # nt.disk[path]
       /\ nt' = [nt EXCEPT !.disk[path] = d, !.op = "disk", !.said = <<>>,
                           !.shown = <<>>]
       /\ UNCHANGED ntOthers

NextNotify ==
    \/ NtCheck
    \/ NtNotify
    \/ NtList
    \/ NtSetNotified
    \/ NtMailboxes
    \/ NtUnmailboxes
    \/ NtSelect
    \/ NtDisk

\* C38: a mailbox is announced by mutt_mailbox_notify at most once while its
\* has_new stays true from one operation to the next, and MailboxNotify is
\* never negative
C38_AnnouncedOnce ==
    nt.op # "none" =>
        /\ \A i \in 1..Len(nt.AllMailboxes) : nt.AllMailboxes[i].ann <= 1
        /\ nt.MailboxNotify >= 0

\* a second mutt_mailbox_notify announces one mailbox and keeps quiet about
\* the other, which still has new mail and was announced before
C38_Witness ==
    /\ nt.op = "notify"
    /\ Len(nt.AllMailboxes) = 2
    /\ Len(nt.said) = 1
    /\ \A i \in 1..2 : nt.AllMailboxes[i].has_new /\ nt.AllMailboxes[i].ann = 1

(***************************************************************************)
(* Deliveries while a Maildir is opened, checked and synced                *)
(***************************************************************************)

\* the deliveries another program makes
MaxDeliveries == 2

\* the flags the user changes meanwhile
MaxFlagSets == 1

\* the k-th delivery: its file in new/ and its message
DeliveryNames == <<"d", "e", "f">>
DeliveryMsgs == <<"n1", "n2", "n3">>

\* no stat of the directories is held
NoStat == [clock |-> 0, new |-> 0, cur |-> 0, root |-> 0, seq |-> 0]

\* the messages of the emails
MsgsOf(hdrs) == {hdrs[i].msg : i \in 1..Len(hdrs)}

InitDelivery ==
    /\ conf \in [magic : {MUTT_MAILDIR}, MaildirTrash : BOOLEAN, MhPurge : {FALSE},
                 CheckNew : {TRUE}, FlagSafe : {FALSE}, MarkOld : {TRUE}]
    /\ \E names \in SUBSET MaildirPool :
          /\ Cardinality(names) = MaxMsgs
          /\ files = [f \in names |-> Whole(PoolMsg(f))]
    /\ seqfile = NoFile
    /\ dirmtime = [clock |-> 1, new |-> 1, cur |-> 1, root |-> 1, seq |-> 1]
    /\ emails = <<>>
    /\ mbox = NoBox
    /\ mon = FALSE
    /\ hcache = {}
    /\ last = [op |-> "none", n |-> 0, rc |-> 0, crc |-> 0, ext |-> FALSE, clean |-> TRUE]
    /\ nops = 0
    /\ dlv = [pc |-> "closed", op |-> "none", st |-> NoStat, delivered |-> {},
              reported |-> {}, nset |-> 0]
    /\ IdleSeq
    /\ IdleCalc
    /\ IdleComp
    /\ IdleNotify
    /\ IdleCommit
    /\ IdleRewrite

\* a check returned rc and left the emails hdrs: the deliveries it reported
Reported(rc, hdrs) ==
    IF rc = MUTT_NEW_MAIL
    THEN dlv.reported \cup ((MsgsOf(hdrs) \ MsgsOf(emails)) \cap dlv.delivered)
    ELSE dlv.reported

\* maildir_read_dir, its first half: mh_read_dir on new/
DlOpenNew ==
    LET Read(r) ==
            /\ r.rc = 0
            /\ SetBox(r.box)
    IN /\ dlv.pc = "closed"
       /\ Read(mh_read_dir(conf, files, seqfile, dirmtime, Box, "new", FALSE))
       /\ dlv' = [dlv EXCEPT !.pc = "open_cur", !.op = "opening"]
       /\ UNCHANGED <<files, seqfile, conf, dirmtime, last, nops, dlvOthers>>

\* maildir_read_dir, its second half: mh_read_dir on cur/, which calls
\* maildir_update_mtime again
DlOpenCur ==
    LET Read(r) ==
            /\ r.rc = 0
            /\ SetBox([r.box EXCEPT !.rec.opened = TRUE])
    IN /\ dlv.pc = "open_cur"
       /\ Read(mh_read_dir(conf, files, seqfile, dirmtime, Box, "cur", FALSE))
       /\ dlv' = [dlv EXCEPT !.pc = "idle", !.op = "open"]
       /\ UNCHANGED <<files, seqfile, conf, dirmtime, last, nops, dlvOthers>>

\* mx_mbox_check is called: maildir_mbox_check takes the stat of new/ and cur/
DlCheckStat ==
    /\ dlv.pc = "idle"
    /\ dlv' = [dlv EXCEPT !.pc = "check_scan", !.op = "checking", !.st = dirmtime]
    /\ UNCHANGED <<files, seqfile, conf, dirmtime, emails, mbox, mon, hcache, last, nops,
                   dlvOthers>>

\* the rest of maildir_mbox_check: the comparison with the recorded mtimes,
\* their update, the scan of the changed directories and the merge
DlCheckScan ==
    LET Checked(r) ==
            /\ SetBox(r.box)
            /\ dlv' = [dlv EXCEPT !.pc = "idle", !.op = "check", !.st = NoStat,
                                  !.reported = Reported(r.rc, r.box.hdrs)]
    IN /\ dlv.pc = "check_scan"
       /\ Checked(FormatCheck(conf, files, seqfile, dlv.st, Box, "none", 0))
       /\ UNCHANGED <<files, seqfile, conf, dirmtime, last, nops, dlvOthers>>

\* mh_mbox_sync up to the end of its loop: when its check returns non-zero
\* the sync returns that at once
DlSyncLoop ==
    LET Synced(chk, r) ==
            /\ files' = r.fs
            /\ dirmtime' = r.dm
            /\ IF r.rc = 0
               THEN /\ SetBox([r.box EXCEPT !.rec = chk.box.rec])
                    /\ dlv' = [dlv EXCEPT !.pc = "sync_end", !.op = "syncing"]
               ELSE /\ SetBox(r.box)
                    /\ dlv' = [dlv EXCEPT !.op = "sync",
                                          !.reported = Reported(r.crc, r.box.hdrs)]
    IN /\ dlv.pc = "idle"
       /\ Synced(FormatCheck(conf, files, seqfile, dirmtime, Box, "none", 0),
                 mh_mbox_sync(conf, files, seqfile, dirmtime, Box, "none", 1, 0))
       /\ UNCHANGED <<seqfile, conf, last, nops, dlvOthers>>

\* the end of mh_mbox_sync: maildir_update_mtime, then mx_update_tables
DlSyncEnd ==
    /\ dlv.pc = "sync_end"
    /\ mbox' = maildir_update_mtime(conf, dirmtime, seqfile, mbox)
    /\ emails' = mx_update_tables(conf, emails, TRUE)
    /\ dlv' = [dlv EXCEPT !.pc = "idle", !.op = "sync"]
    /\ UNCHANGED <<files, seqfile, conf, dirmtime, mon, hcache, last, nops, dlvOthers>>

\* another program delivers a message to new/, at any time after the open
\* has scanned new/
DlDeliver ==
    LET Put(k) ==
            /\ files' = DirPut(files, <<"new", "/", DeliveryNames[k]>>,
                               Whole(DeliveryMsgs[k]))
            /\ dirmtime' = Touch(dirmtime, {"new"})
            /\ dlv' = [dlv EXCEPT !.delivered = @ \cup {DeliveryMsgs[k]}]
    IN /\ dlv.pc # "closed"
       /\ Cardinality(dlv.delivered) < MaxDeliveries
       /\ Put(Cardinality(dlv.delivered) + 1)
       /\ UNCHANGED <<seqfile, conf, emails, mbox, mon, hcache, last, nops, dlvOthers>>

\* the user changes a flag of a message
DlSetFlag ==
    /\ dlv.pc = "idle"
    /\ dlv.nset < MaxFlagSets
    /\ \E i \in 1..Len(emails), flag \in {"flagged", "deleted"} :
          /\ emails[i].msg \notin dlv.delivered
          /\ emails' = [emails EXCEPT ![i] = mutt_set_flag(@, flag)]
    /\ dlv' = [dlv EXCEPT !.nset = @ + 1]
    /\ UNCHANGED <<files, seqfile, conf, dirmtime, mbox, mon, hcache, last, nops,
                   dlvOthers>>

\* the monitor reports a delivery
DlMonitor ==
    /\ dlv.pc = "idle"
    /\ dlv.delivered # {}
    /\ ~mon
    /\ mon' = TRUE
    /\ UNCHANGED <<files, seqfile, conf, dirmtime, emails, mbox, hcache, last, nops, dlv,
                   dlvOthers>>

NextDelivery ==
    \/ DlOpenNew
    \/ DlOpenCur
    \/ DlCheckStat
    \/ DlCheckScan
    \/ DlSyncLoop
    \/ DlSyncEnd
    \/ DlDeliver
    \/ DlSetFlag
    \/ DlMonitor

\* C36: every message another program adds to new/ after the open has begun
\* to scan new/ is in the end incorporated and reported as new mail by a
\* check, when checks keep returning
C36_DeliveredReported ==
    \A k \in 1..MaxDeliveries :
       ([]<>(dlv.op = "check")) =>
          ((DeliveryMsgs[k] \in dlv.delivered) ~> (DeliveryMsgs[k] \in dlv.reported))

(***************************************************************************)
(* Specifications                                                          *)
(***************************************************************************)


\* the writers of .mh_sequences and a reader
SpecSeq == InitSeq /\ [][NextSeq]_vars

\* two processes in mh_commit_msg
SpecCommit == InitCommit /\ [][NextCommit]_vars

\* one call of mh_rewrite_message
SpecRewrite == InitRewrite /\ [][NextRewrite]_vars

\* calls of the functions on file names and flags
SpecCalc == InitCalc /\ [][NextCalc]_vars
SpecComp == InitComp /\ [][NextComp]_vars

\* the mailboxes watched for new mail, their user and other programs
SpecNotify == InitNotify /\ [][NextNotify]_vars

\* a Maildir that is opened, checked and synced while another program delivers
SpecDelivery == InitDelivery /\ [][NextDelivery]_vars

\* the same when the user's timer keeps calling mx_mbox_check
SpecDeliveryFair == SpecDelivery /\ WF_vars(DlCheckStat)

\* an open Maildir or MH mailbox, its user and other programs
Spec == Init /\ [][Next]_vars

====
